---- MODULE Spec2Model ----
(***************************************************************************)
(* gabes: Yao garbled circuits between a garbler (G) and an evaluator (E). *)
(*                                                                         *)
(* Byte strings are modelled symbolically, as elements of the GF(2) vector *)
(* space spanned by atoms: a byte string is the finite set of atoms whose  *)
(* XOR it is, bytes(NUM_BYTES) (all zero) is the empty set, and utils.xor  *)
(* is the symmetric difference.  An atom is either a fresh os.urandom draw *)
(* or the output of a cryptographic primitive (SHA-256, AES decryption) on *)
(* given arguments; distinct draws and distinct primitive applications are *)
(* distinct atoms (perfect cryptography).  Every atom carries the bit that *)
(* utils.get_last_bit reads from it.                                       *)
(*                                                                         *)
(* The random source is a tape of RandBits bits fixed in the initial state *)
(* and read cyclically; draw number i reads tape position i % RandBits.    *)
(***************************************************************************)
EXTENDS Integers, Sequences, FiniteSets, TLC

VARIABLES
    settings,     \* gabes.settings: the six flags and R
    seed,         \* the random tape
    file,         \* args.circuit: the expression, as a sequence of tokens
    g_args,       \* garbler's args.identifiers, as a set
    e_args,       \* evaluator's args.identifiers, as a set
    g_bits,       \* garbler's inputs dict, as far as it has been read
    e_bits,       \* evaluator's inputs dict, as far as it has been read
    rc,           \* garbler: number of random draws made so far
    pcG,          \* garbler: position in garbler()
    stack,        \* garbler: the _build_tree call stack
    tree,         \* garbler: anytree nodes, node id -> [parent, children]
    gates,        \* garbler: node id -> Gate
    wires,        \* garbler: wire id -> Wire
    input_wires,  \* garbler: Circuit.input_wires (<<>> while None)
    garbled,      \* garbler: node ids in the order garble() ran on them
    gi,           \* garbler: loop index of hand_over_labels
    g_ot,         \* garbler: locals of the running garbler_ot
    g_out,        \* garbler: return value of garbler()
    pcE,          \* evaluator: position in evaluator()
    idents,       \* evaluator: identifiers received
    labels,       \* evaluator: labels accumulated by request_labels
    ei,           \* evaluator: loop index of request_labels
    e_ot,         \* evaluator: locals of the running evaluator_ot
    e_circ,       \* evaluator: the circuit received
    secret_output,\* evaluator: the label reconstruct returned
    e_out,        \* evaluator: return value of evaluator()
    g2e,          \* socket, garbler to evaluator: messages in flight
    e2g,          \* socket, evaluator to garbler: messages in flight
    log           \* every message sent so far, and every receipt, in order

vars == <<settings, seed, file, g_args, e_args, g_bits, e_bits, rc, pcG,
          stack, tree, gates,
          wires, input_wires, garbled, gi, g_ot, g_out, pcE, idents, labels,
          ei, e_ot, e_circ, secret_output, e_out, g2e, e2g, log>>

gvars == <<g_bits, rc, pcG, stack, tree, gates, wires, input_wires, garbled, gi,
           g_ot, g_out>>
evars == <<e_bits, pcE, idents, labels, ei, e_ot, e_circ, secret_output, e_out>>
cvars == <<settings, seed, file, g_args, e_args>>

-----------------------------------------------------------------------------
(* Bounds *)

RandBits == 4

(* Python's None where a bit is expected, and for a missing wire / node.   *)
None == -1
NoWire == 0
NoId == "<None>"

-----------------------------------------------------------------------------
(* Byte strings *)

Atom(t, n, x, y, z, lb) ==
    [t |-> t, n |-> n, x |-> x, y |-> y, z |-> z, lb |-> lb]

Zero == {}

RECURSIVE SumN(_)
SumN(b) == IF b = {} THEN 0
           ELSE LET a == CHOOSE a \in b : TRUE IN a.n + SumN(b \ {a})

(* The bit the random tape holds at position i. *)
Bit(i) == seed[(i % RandBits) + 1]

(* os.urandom(NUM_BYTES), draw number n. *)
urandom(n) == {Atom("urandom", n, {}, {}, {}, Bit(n))}

(* The last bit of the output of a primitive: a fixed function of the      *)
(* arguments, read from the tape at a digest of the arguments.             *)
PrimAtom(t, c, x, y, z) ==
    LET n == c + 3 * SumN(x) + 5 * SumN(y) + 7 * SumN(z)
    IN  Atom(t, n, x, y, z, Bit(n))

(* utils.xor *)
xor(b1, b2) == (b1 \ b2) \cup (b2 \ b1)

(* utils.get_last_bit *)
get_last_bit(label) == Cardinality({a \in label : a.lb = 1}) % 2

(* hashlib.sha256(x).digest() *)
sha256(x) == {PrimAtom("sha256", 1, x, {}, {})}


(* The first draw at or after n whose tape bit is b: where a loop that     *)
(* redraws until the last bit is b stops.                                  *)
HasDraw(b) == \E i \in 1..RandBits : seed[i] = b
FirstDraw(n, b) == CHOOSE i \in n..(n + RandBits - 1) :
                       /\ Bit(i) = b
                       /\ \A j \in n..(i - 1) : Bit(j) # b

-----------------------------------------------------------------------------
(* Label and Wire *)

Label(represents, pp_bit, n) ==
    [label |-> urandom(n), represents |-> represents, pp_bit |-> pp_bit]

NoLabel == [label |-> Zero, represents |-> None, pp_bit |-> None]

(* Number of draws Wire.__init__ makes. *)
WireDraws(S) == IF S.CLASSICAL THEN 2 ELSE 3

Wire(identifier, S, n) ==
    LET b == Bit(n)
        w == IF S.CLASSICAL
             THEN [identifier |-> identifier,
                   false_label |-> Label(0, None, n),
                   true_label |-> Label(1, None, n + 1)]
             ELSE [identifier |-> identifier,
                   false_label |-> Label(0, b, n + 1),
                   true_label |-> Label(1, 1 - b, n + 2)]
    IN  IF S.FREE_XOR \/ S.HALF_GATES
        THEN [w EXCEPT !.true_label.label = xor(w.false_label.label, S.R)]
        ELSE w

(* Wire.labels *)
wire_labels(w) == <<w.false_label, w.true_label>>

(* Wire.get_label *)
get_label(w, representing) ==
    IF representing = 1 THEN w.true_label ELSE w.false_label

(* utils.adjust_wire_offset: the wire after the loop, and the draws made.  *)
adjust_wire_offset(w, n) ==
    LET f == get_last_bit(w.false_label.label)
        t == get_last_bit(w.true_label.label)
        i == FirstDraw(n, 1 - f)
    IN  IF f # t THEN [wire |-> w, rc |-> n, hang |-> FALSE]
        ELSE IF ~HasDraw(1 - f) THEN [wire |-> w, rc |-> n, hang |-> TRUE]
        ELSE [wire |-> [w EXCEPT !.true_label.label = urandom(i)],
              rc |-> i + 1, hang |-> FALSE]

-----------------------------------------------------------------------------
(* Ciphertexts.  c names the scheme and the encoding of keys and output:   *)
(*   "fernet"   Fernet under two keys label.to_base64()                    *)
(*   "aes"      AESKey(label.to_base64()) twice, padded                    *)
(*   "aes_b64"  the same with to_base64=True                               *)
(*   "aes_raw"  AESKey(label bytes) once, of a byte string m               *)
(*   "bytes"    a plain byte string m (half gates)                         *)
(*   "None"     an empty table slot                                        *)

NoEntry == [c |-> "None", k1 |-> Zero, k2 |-> Zero, p |-> NoLabel, m |-> Zero]

(* key1.encrypt(key2.encrypt(pickle.dumps(output_label))) *)
Encrypt2(c, left_label, right_label, output_label) ==
    [c |-> c, k1 |-> left_label.label, k2 |-> right_label.label,
     p |-> output_label, m |-> Zero]

(* AESKey(key).encrypt(msg) *)
Encrypt1(key, msg) ==
    [c |-> "aes_raw", k1 |-> key, k2 |-> Zero, p |-> NoLabel, m |-> msg]

BytesEntry(msg) ==
    [c |-> "bytes", k1 |-> Zero, k2 |-> Zero, p |-> NoLabel, m |-> msg]

(* crypto.generate_zero_ciphertext *)
generate_zero_ciphertext(left_label, right_label) ==
    {PrimAtom("zero_ciphertext", 2, left_label.label, right_label.label, {})}

(* AESKey(key).decrypt(bytes(NUM_BYTES)), unpadded as decrypt does by default *)
DecryptZero(key) == {PrimAtom("aes_dec_zero", 3, key, {}, {})}

(* AESKey(key).decrypt(entry) of an entry made under another key *)
DecryptGarbage(key, entry) ==
    {PrimAtom("aes_dec_bad", 4, key, entry.k1, entry.m)}

-----------------------------------------------------------------------------
(* Gate *)

(* Gate.gates / Gate.evaluate_gate *)
evaluate_gate(gate_type, input1, input2) ==
    CASE gate_type = "AND" -> IF input1 = 1 /\ input2 = 1 THEN 1 ELSE 0
      [] gate_type = "XOR" -> IF input1 # input2 THEN 1 ELSE 0
      [] gate_type = "OR"  -> IF input1 = 1 \/ input2 = 1 THEN 1 ELSE 0

(* The result of a garble routine: the wires and the table after it, the   *)
(* draw counter, whether it raised, whether it loops for ever.             *)
Garbled(W, table, n, err, hang) ==
    [wires |-> W, table |-> table, rc |-> n, err |-> err, hang |-> hang]

(* The i-th pair of the nested loops over left and right labels. *)
LeftOf(W, g, i) == wire_labels(W[g.left_wire])[((i - 1) \div 2) + 1]
RightOf(W, g, i) == wire_labels(W[g.right_wire])[((i - 1) % 2) + 1]
OutputOf(W, g, i) ==
    get_label(W[g.output_wire],
              evaluate_gate(g.gate_type, LeftOf(W, g, i).represents,
                            RightOf(W, g, i).represents))

MissingWire(g) == g.left_wire = NoWire \/ g.right_wire = NoWire

(* Crypto.Random.random.shuffle, two draws: a rotation of the table. *)
shuffle(table, n) ==
    LET k == 2 * Bit(n) + Bit(n + 1)
    IN  [i \in 1..Len(table) |-> table[((i - 1 + k) % Len(table)) + 1]]

(* Gate.classical_garble *)
classical_garble(W, g, S, n) ==
    IF MissingWire(g) THEN Garbled(W, g.table, n, TRUE, FALSE)
    ELSE LET entries == [i \in 1..4 |->
                 Encrypt2("fernet", LeftOf(W, g, i), RightOf(W, g, i),
                          OutputOf(W, g, i))]
         IN  Garbled(W, shuffle(g.table \o entries, n), n + 2, FALSE, FALSE)

(* The table a loop "table[index(i)] = entry(i)" over the pairs in dom     *)
(* leaves in a table of size slots: the last write to a slot stays.        *)
TableOf(slots, dom, index, entry) ==
    [j \in 1..slots |->
        LET hits == {i \in dom : index[i] + 1 = j}
        IN  IF hits = {} THEN NoEntry
            ELSE entry[CHOOSE i \in hits : \A h \in hits : h <= i]]

(* Gate.point_and_permute_garble *)
point_and_permute_garble(W, g, S, n) ==
    IF MissingWire(g) THEN Garbled(W, g.table, n, TRUE, FALSE)
    ELSE LET index == [i \in 1..4 |-> 2 * LeftOf(W, g, i).pp_bit
                                       + RightOf(W, g, i).pp_bit]
             entry == [i \in 1..4 |->
                          Encrypt2("aes", LeftOf(W, g, i), RightOf(W, g, i),
                                   OutputOf(W, g, i))]
         IN  Garbled(W, TableOf(4, 1..4, index, entry), n, FALSE, FALSE)

(* set_zero_ciphertext making the zero ciphertext under the two keys in    *)
(* the other order.                                                        *)
set_zero_ciphertext_swapped(W, g) ==
    LET l == W[g.left_wire]
        r == W[g.right_wire]
        pp_left == IF l.false_label.pp_bit # 1 THEN l.false_label
                   ELSE l.true_label
        pp_right == IF r.false_label.pp_bit # 1 THEN r.false_label
                    ELSE r.true_label
        output_label == generate_zero_ciphertext(pp_right, pp_left)
        logic_value == evaluate_gate(g.gate_type, pp_left.represents,
                                     pp_right.represents)
        pp_bit == get_last_bit(output_label)
        o == g.output_wire
    IN  IF logic_value = 1
        THEN [W EXCEPT ![o].true_label.label = output_label,
                       ![o].true_label.pp_bit = pp_bit,
                       ![o].false_label.pp_bit = 1 - pp_bit]
        ELSE [W EXCEPT ![o].false_label.label = output_label,
                       ![o].false_label.pp_bit = pp_bit,
                       ![o].true_label.pp_bit = 1 - pp_bit]

(* Gate.set_zero_ciphertext: the wires after it. *)
set_zero_ciphertext(W, g) ==
    LET l == W[g.left_wire]
        r == W[g.right_wire]
        pp_left == IF l.false_label.pp_bit # 1 THEN l.false_label
                   ELSE l.true_label
        pp_right == IF r.false_label.pp_bit # 1 THEN r.false_label
                    ELSE r.true_label
        output_label == generate_zero_ciphertext(pp_left, pp_right)
        logic_value == evaluate_gate(g.gate_type, pp_left.represents,
                                     pp_right.represents)
        pp_bit == get_last_bit(output_label)
        o == g.output_wire
    IN  IF logic_value = 1
        THEN [W EXCEPT ![o].true_label.label = output_label,
                       ![o].true_label.pp_bit = pp_bit,
                       ![o].false_label.pp_bit = 1 - pp_bit]
        ELSE [W EXCEPT ![o].false_label.label = output_label,
                       ![o].false_label.pp_bit = pp_bit,
                       ![o].true_label.pp_bit = 1 - pp_bit]

(* Gate.grr3_garble *)
grr3_garble(W, g, S, n) ==
    IF MissingWire(g) THEN Garbled(W, g.table, n, TRUE, FALSE)
    ELSE LET W1 == set_zero_ciphertext(W, g)
             index == [i \in 1..4 |-> 2 * LeftOf(W1, g, i).pp_bit
                                       + RightOf(W1, g, i).pp_bit - 1]
             entry == [i \in 1..4 |->
                          Encrypt2("aes_b64", LeftOf(W1, g, i),
                                   RightOf(W1, g, i), OutputOf(W1, g, i))]
             dom == {i \in 1..4 : LeftOf(W1, g, i).pp_bit = 1
                                  \/ RightOf(W1, g, i).pp_bit = 1}
         IN  Garbled(W1, TableOf(3, dom, index, entry), n, FALSE, FALSE)

(* Gate.free_xor_garble.  settings.R exists only once Circuit.__init__ has  *)
(* set it (FreeXOR, half gates); reading it otherwise raises.              *)
free_xor_garble(W, g, S, n) ==
    IF MissingWire(g) THEN Garbled(W, g.table, n, TRUE, FALSE)
    ELSE IF g.gate_type = "XOR"
    THEN LET A0 == W[g.left_wire].false_label.label
             B0 == W[g.right_wire].false_label.label
             C0 == xor(A0, B0)
             C1 == xor(xor(A0, B0), S.R)
             pp_bit == get_last_bit(C0)
             o == g.output_wire
         IN  IF S.R = Zero THEN Garbled(W, g.table, n, TRUE, FALSE)
             ELSE Garbled([W EXCEPT ![o].false_label.label = C0,
                                    ![o].false_label.pp_bit = pp_bit,
                                    ![o].true_label.label = C1,
                                    ![o].true_label.pp_bit = 1 - pp_bit],
                          g.table, n, FALSE, FALSE)
    ELSE IF S.GRR3 THEN grr3_garble(W, g, S, n)
    ELSE point_and_permute_garble(W, g, S, n)

(* modify_pp_bits without the negations: both labels of a wire get the     *)
(* last bit of its false label.                                            *)
modify_pp_bits_same(W, g, A0_, B0_, C0_) ==
    LET l_pp_bit == get_last_bit(A0_)
        r_pp_bit == get_last_bit(B0_)
        out_pp_bit == get_last_bit(C0_)
    IN  [W EXCEPT ![g.left_wire].false_label.pp_bit = l_pp_bit,
                  ![g.left_wire].true_label.pp_bit = l_pp_bit,
                  ![g.right_wire].false_label.pp_bit = r_pp_bit,
                  ![g.right_wire].true_label.pp_bit = r_pp_bit,
                  ![g.output_wire].false_label.pp_bit = out_pp_bit,
                  ![g.output_wire].true_label.pp_bit = out_pp_bit]

(* Gate.modify_pp_bits: the wires after it. *)
modify_pp_bits(W, g, A0_, B0_, C0_) ==
    LET l_pp_bit == get_last_bit(A0_)
        r_pp_bit == get_last_bit(B0_)
        out_pp_bit == get_last_bit(C0_)
    IN  [W EXCEPT ![g.left_wire].false_label.pp_bit = l_pp_bit,
                  ![g.left_wire].true_label.pp_bit = 1 - l_pp_bit,
                  ![g.right_wire].false_label.pp_bit = r_pp_bit,
                  ![g.right_wire].true_label.pp_bit = 1 - r_pp_bit,
                  ![g.output_wire].false_label.pp_bit = out_pp_bit,
                  ![g.output_wire].true_label.pp_bit = 1 - out_pp_bit]

(* Gate.flexor_garble *)
flexor_garble(W, g, S, n) ==
    IF MissingWire(g) THEN Garbled(W, g.table, n, TRUE, FALSE)
    ELSE IF g.gate_type = "XOR"
    THEN LET adj == adjust_wire_offset(W[g.output_wire], n)
             W0 == [W EXCEPT ![g.output_wire] = adj.wire]
             left == W0[g.left_wire]
             right == W0[g.right_wire]
             out == W0[g.output_wire]
             A0 == left.false_label.label
             A1 == left.true_label.label
             B0 == right.false_label.label
             B1 == right.true_label.label
             C0 == out.false_label.label
             C1 == out.true_label.label
             R1 == xor(A0, A1)
             R2 == xor(B0, B1)
             R3 == xor(C0, C1)
             A0_ == DecryptZero(A0)
             B0_ == DecryptZero(B0)
             C0_ == xor(A0_, B0_)
             C1_ == xor(xor(A0_, B0_), R3)
             A1_ == xor(A0_, R3)
             B1_ == xor(B0_, R3)
             W1 == modify_pp_bits(W0, g, A0_, B0_, C0_)
             W2 == [W1 EXCEPT ![g.output_wire].false_label.label = C0_,
                              ![g.output_wire].true_label.label = C1_]
             li == W2[g.left_wire].true_label.pp_bit + 1
             ri == W2[g.right_wire].true_label.pp_bit + 2 + 1
             empty == [j \in 1..4 |-> NoEntry]
             g1 == [g EXCEPT !.table = empty]
         IN  IF adj.hang THEN Garbled(W, g.table, n, FALSE, TRUE)
             ELSE IF R1 = R2 /\ R2 = R3
                  THEN free_xor_garble(W2, g1, S, adj.rc)
             ELSE IF R1 # R2 /\ R2 # R3
                  THEN Garbled(W2, [empty EXCEPT ![li] = Encrypt1(A1, A1_),
                                                 ![ri] = Encrypt1(B1, B1_)],
                               adj.rc, FALSE, FALSE)
             ELSE IF R1 = R3
                  THEN Garbled(W2, [empty EXCEPT ![ri] = Encrypt1(B1, B1_)],
                               adj.rc, FALSE, FALSE)
             ELSE IF R2 = R3
                  THEN Garbled(W2, [empty EXCEPT ![li] = Encrypt1(A1, A1_)],
                               adj.rc, FALSE, FALSE)
             ELSE Garbled(W2, empty, adj.rc, FALSE, FALSE)
    ELSE IF S.GRR3 THEN grr3_garble(W, g, S, n)
    ELSE point_and_permute_garble(W, g, S, n)

(* Gate.update_output_wire: the wires after it. *)
update_output_wire(W, g, false_label, true_label) ==
    [W EXCEPT ![g.output_wire].false_label.label = false_label,
              ![g.output_wire].true_label.label = true_label,
              ![g.output_wire].false_label.pp_bit = get_last_bit(false_label),
              ![g.output_wire].true_label.pp_bit = get_last_bit(true_label)]

(* half_gates_garble with the generator half gate masked by p_a where the *)
(* code masks it by p_b.                                                   *)
half_gates_garble_p_a(W, g, S, n) ==
    IF MissingWire(g) THEN Garbled(W, g.table, n, TRUE, FALSE)
    ELSE IF g.gate_type = "AND"
    THEN LET l == W[g.left_wire]
             r == W[g.right_wire]
             p_a == l.false_label.pp_bit
             p_b == r.false_label.pp_bit
             e1 == xor(sha256(l.false_label.label),
                       sha256(l.true_label.label))
             entry1 == IF p_a = 1 THEN xor(e1, S.R) ELSE e1
             h0 == sha256(l.false_label.label)
             C0 == IF p_a = 1 THEN xor(h0, entry1) ELSE h0
             entry2 == xor(xor(sha256(r.false_label.label),
                               sha256(r.true_label.label)),
                           l.false_label.label)
             h1 == sha256(r.false_label.label)
             C0_ == IF p_b = 1
                    THEN xor(h1, xor(entry2, l.false_label.label))
                    ELSE h1
         IN  Garbled(update_output_wire(W, g, xor(C0, C0_),
                                        xor(xor(C0, C0_), S.R)),
                     <<BytesEntry(entry1), BytesEntry(entry2)>>,
                     n, FALSE, FALSE)
    ELSE free_xor_garble(W, g, S, n)

(* Gate.half_gates_garble *)
half_gates_garble(W, g, S, n) ==
    IF MissingWire(g) THEN Garbled(W, g.table, n, TRUE, FALSE)
    ELSE IF g.gate_type = "AND"
    THEN LET l == W[g.left_wire]
             r == W[g.right_wire]
             p_a == l.false_label.pp_bit
             p_b == r.false_label.pp_bit
             e1 == xor(sha256(l.false_label.label),
                       sha256(l.true_label.label))
             entry1 == IF p_b = 1 THEN xor(e1, S.R) ELSE e1
             h0 == sha256(l.false_label.label)
             C0 == IF p_a = 1 THEN xor(h0, entry1) ELSE h0
             entry2 == xor(xor(sha256(r.false_label.label),
                               sha256(r.true_label.label)),
                           l.false_label.label)
             h1 == sha256(r.false_label.label)
             C0_ == IF p_b = 1
                    THEN xor(h1, xor(entry2, l.false_label.label))
                    ELSE h1
         IN  Garbled(update_output_wire(W, g, xor(C0, C0_),
                                        xor(xor(C0, C0_), S.R)),
                     <<BytesEntry(entry1), BytesEntry(entry2)>>,
                     n, FALSE, FALSE)
    ELSE free_xor_garble(W, g, S, n)

(* Gate.garble: W are the wires, g the gate, S the settings, n the draws   *)
(* made so far.                                                            *)
garble(W, g, S, n) ==
    IF S.CLASSICAL THEN classical_garble(W, g, S, n)
    ELSE IF S.POINT_AND_PERMUTE THEN point_and_permute_garble(W, g, S, n)
    ELSE IF S.FREE_XOR THEN free_xor_garble(W, g, S, n)
    ELSE IF S.FLEXOR THEN flexor_garble(W, g, S, n)
    ELSE IF S.GRR3 THEN grr3_garble(W, g, S, n)
    ELSE IF S.HALF_GATES THEN half_gates_garble(W, g, S, n)
    ELSE Garbled(W, g.table, n, FALSE, FALSE)

-----------------------------------------------------------------------------
(* Ungarbling.  Raised stands for "the call raised an exception".          *)

Raised == [label |-> {Atom("raised", 0, {}, {}, {}, 0)},
           represents |-> None, pp_bit |-> None]

(* The label a freshly made Label(0) becomes once the evaluator has        *)
(* overwritten its three fields.                                           *)
DerivedLabel(bytes) ==
    [label |-> bytes, represents |-> None, pp_bit |-> get_last_bit(bytes)]

(* pickle.loads(key2.decrypt(key1.decrypt(table_entry))) *)
Decrypt2(c, garblers_label, evaluators_label, table_entry) ==
    IF /\ table_entry.c = c
       /\ table_entry.k1 = garblers_label.label
       /\ table_entry.k2 = evaluators_label.label
    THEN table_entry.p
    ELSE Raised

(* classical_ungarble without the try: the first entry alone is tried and  *)
(* its InvalidToken is not passed over.                                    *)
classical_ungarble_first(g, S, garblers_label, evaluators_label) ==
    IF g.table = <<>> THEN Raised
    ELSE Decrypt2("fernet", garblers_label, evaluators_label, g.table[1])

(* Gate.classical_ungarble: every entry is tried, InvalidToken is passed   *)
(* over, and the value of the last successful decryption is returned.      *)
classical_ungarble(g, S, garblers_label, evaluators_label) ==
    LET ok == {i \in 1..Len(g.table) :
                 Decrypt2("fernet", garblers_label, evaluators_label,
                          g.table[i]) # Raised}
        last == CHOOSE i \in ok : \A j \in ok : j <= i
    IN  IF ok = {} THEN Raised
        ELSE Decrypt2("fernet", garblers_label, evaluators_label,
                      g.table[last])

(* point_and_permute_ungarble with the two select bits in the other order. *)
point_and_permute_ungarble_swapped(g, S, garblers_label, evaluators_label) ==
    LET left_pp_bit == garblers_label.pp_bit
        right_pp_bit == evaluators_label.pp_bit
        i == 2 * right_pp_bit + left_pp_bit + 1
    IN  IF left_pp_bit = None \/ right_pp_bit = None THEN Raised
        ELSE IF i > Len(g.table) THEN Raised
        ELSE Decrypt2("aes", garblers_label, evaluators_label, g.table[i])

(* Gate.point_and_permute_ungarble *)
point_and_permute_ungarble(g, S, garblers_label, evaluators_label) ==
    LET left_pp_bit == garblers_label.pp_bit
        right_pp_bit == evaluators_label.pp_bit
        i == 2 * left_pp_bit + right_pp_bit + 1
    IN  IF left_pp_bit = None \/ right_pp_bit = None THEN Raised
        ELSE IF i > Len(g.table) THEN Raised
        ELSE Decrypt2("aes", garblers_label, evaluators_label, g.table[i])

(* Gate.grr3_ungarble *)
grr3_ungarble(g, S, garblers_label, evaluators_label) ==
    LET left_pp_bit == garblers_label.pp_bit
        right_pp_bit == evaluators_label.pp_bit
        i == 2 * left_pp_bit + right_pp_bit - 1 + 1
    IN  IF left_pp_bit # 1 /\ right_pp_bit # 1
        THEN DerivedLabel(generate_zero_ciphertext(garblers_label,
                                                   evaluators_label))
        ELSE IF left_pp_bit = None \/ right_pp_bit = None THEN Raised
        ELSE IF i > Len(g.table) THEN Raised
        ELSE Decrypt2("aes_b64", garblers_label, evaluators_label,
                      g.table[i])

(* Gate.free_xor_ungarble *)
free_xor_ungarble(g, S, garblers_label, evaluators_label) ==
    IF g.gate_type = "XOR"
    THEN DerivedLabel(xor(garblers_label.label, evaluators_label.label))
    ELSE IF S.GRR3
    THEN grr3_ungarble(g, S, garblers_label, evaluators_label)
    ELSE point_and_permute_ungarble(g, S, garblers_label, evaluators_label)

(* Gate.transform_label *)
transform_label(g, label, garbler) ==
    LET pp_bit == label.pp_bit
        i == (IF garbler THEN pp_bit ELSE pp_bit + 2) + 1
        table_entry == g.table[i]
    IN  IF pp_bit = None \/ i > Len(g.table) THEN Raised
        ELSE IF table_entry.c = "None"
        THEN [label EXCEPT !.label = DecryptZero(label.label)]
        ELSE IF table_entry.c = "aes_raw" /\ table_entry.k1 = label.label
        THEN [label EXCEPT !.label = table_entry.m]
        ELSE [label EXCEPT !.label = DecryptGarbage(label.label, table_entry)]

(* Gate.flexor_ungarble *)
flexor_ungarble(g, S, garblers_label, evaluators_label) ==
    IF g.gate_type = "XOR"
    THEN LET gl == transform_label(g, garblers_label, TRUE)
             el == transform_label(g, evaluators_label, FALSE)
         IN  IF gl = Raised \/ el = Raised THEN Raised
             ELSE free_xor_ungarble(g, S, gl, el)
    ELSE IF S.GRR3
    THEN grr3_ungarble(g, S, garblers_label, evaluators_label)
    ELSE point_and_permute_ungarble(g, S, garblers_label, evaluators_label)

(* Gate.half_gates_ungarble *)
half_gates_ungarble(g, S, garblers_label, evaluators_label) ==
    IF g.gate_type = "AND"
    THEN LET s_a == garblers_label.pp_bit
             s_b == evaluators_label.pp_bit
             entry1 == g.table[1].m
             entry2 == g.table[2].m
             gen == sha256(garblers_label.label)
             eva == sha256(evaluators_label.label)
             C_g == IF s_a = 1 THEN xor(gen, entry1) ELSE gen
             C_e == IF s_b = 1
                    THEN xor(eva, xor(entry2, garblers_label.label))
                    ELSE eva
         IN  IF Len(g.table) # 2 THEN Raised
             ELSE DerivedLabel(xor(C_g, C_e))
    ELSE free_xor_ungarble(g, S, garblers_label, evaluators_label)

(* Gate.ungarble *)
ungarble(g, S, garblers_label, evaluators_label) ==
    IF S.CLASSICAL
    THEN classical_ungarble(g, S, garblers_label, evaluators_label)
    ELSE IF S.POINT_AND_PERMUTE
    THEN point_and_permute_ungarble(g, S, garblers_label, evaluators_label)
    ELSE IF S.FREE_XOR
    THEN free_xor_ungarble(g, S, garblers_label, evaluators_label)
    ELSE IF S.FLEXOR
    THEN flexor_ungarble(g, S, garblers_label, evaluators_label)
    ELSE IF S.GRR3
    THEN grr3_ungarble(g, S, garblers_label, evaluators_label)
    ELSE IF S.HALF_GATES
    THEN half_gates_ungarble(g, S, garblers_label, evaluators_label)
    ELSE Raised

-----------------------------------------------------------------------------
(* Circuit: parsing.  An expression is the sequence of its tokens, with    *)
(* "(" and ")" as tokens of their own.                                     *)

Range(f) == {f[i] : i \in DOMAIN f}

Parens == {"(", ")"}

(* len(expression.split()): parentheses stick to the neighbouring token. *)
SplitLen(expression) ==
    Cardinality({i \in DOMAIN expression : expression[i] \notin Parens})

(* The parenthesis balance after the first i tokens. *)
Balance(expression, i) ==
    Cardinality({j \in 1..i : expression[j] = "("})
    - Cardinality({j \in 1..i : expression[j] = ")"})

Separated(ok, left, gate_type, right) ==
    [ok |-> ok, left |-> left, gate_type |-> gate_type, right |-> right]

(* _separate closing the left part at the first ")" rather than where the  *)
(* balance returns to zero.                                                *)
_separate_first_close(expression) ==
    IF "(" \notin Range(expression)
    THEN IF Len(expression) = 3
         THEN Separated(TRUE, <<expression[1]>>, expression[2],
                        <<expression[3]>>)
         ELSE Separated(FALSE, <<>>, "", <<>>)
    ELSE LET closes == {j \in 1..Len(expression) : expression[j] = ")"}
             i == IF closes = {} THEN Len(expression)
                  ELSE CHOOSE j \in closes : \A z \in closes : j <= z
             left == SubSeq(expression, 2, i - 1)
             rest == SubSeq(expression, i + 1, Len(expression) - 1)
             opens == {j \in 1..Len(rest) : rest[j] = "("}
             o == CHOOSE j \in opens : \A z \in opens : j <= z
             gate == SubSeq(rest, 1, o - 1)
             right == SubSeq(rest, o + 1, Len(rest))
         IN  IF opens = {} THEN Separated(FALSE, <<>>, "", <<>>)
             ELSE Separated(TRUE, left,
                            IF Len(gate) = 1 THEN gate[1] ELSE "", right)

(* Circuit._separate; ok is FALSE where the caller's unpacking raises. *)
_separate(expression) ==
    IF "(" \notin Range(expression)
    THEN IF Len(expression) = 3
         THEN Separated(TRUE, <<expression[1]>>, expression[2],
                        <<expression[3]>>)
         ELSE Separated(FALSE, <<>>, "", <<>>)
    ELSE LET zeros == {j \in 1..Len(expression) : Balance(expression, j) = 0}
             i == IF zeros = {} THEN Len(expression)
                  ELSE CHOOSE j \in zeros : \A z \in zeros : j <= z
             left == SubSeq(expression, 2, i - 1)
             rest == SubSeq(expression, i + 1, Len(expression) - 1)
             opens == {j \in 1..Len(rest) : rest[j] = "("}
             o == CHOOSE j \in opens : \A z \in opens : j <= z
             gate == SubSeq(rest, 1, o - 1)
             right == SubSeq(rest, o + 1, Len(rest))
         IN  IF opens = {} THEN Separated(FALSE, <<>>, "", <<>>)
             ELSE Separated(TRUE, left,
                            IF Len(gate) = 1 THEN gate[1] ELSE "", right)

IsLeafExpr(expression) == SplitLen(expression) = 1

(* The identifier a one-token expression names. *)
LeafId(expression) ==
    expression[CHOOSE i \in DOMAIN expression : expression[i] \notin Parens]

-----------------------------------------------------------------------------
(* Circuit: construction *)

NewGate(gate_type, left_wire, right_wire, output_wire) ==
    [gate_type |-> gate_type, left_wire |-> left_wire,
     right_wire |-> right_wire, output_wire |-> output_wire, table |-> <<>>]

(* Circuit._build_gate: Gate.__init__ makes the wires (left and right only *)
(* for a leaf side), anytree.Node hangs the node under its parent, and the *)
(* parent's input wire on that side becomes the new gate's output wire.    *)
(* Returns the tree, the gates, the wires and the draw counter after it.   *)
_build_gate(T, G, W, S, n, parent, left, gate_type, right) ==
    LET is_left_leaf == IsLeafExpr(left)
        is_right_leaf == IsLeafExpr(right)
        d == WireDraws(S)
        nl == IF is_left_leaf THEN 1 ELSE 0
        nr == IF is_right_leaf THEN 1 ELSE 0
        lw == IF is_left_leaf THEN Len(W) + 1 ELSE NoWire
        rw == IF is_right_leaf THEN Len(W) + nl + 1 ELSE NoWire
        ow == Len(W) + nl + nr + 1
        W1 == W \o (IF is_left_leaf THEN <<Wire(NoId, S, n)>> ELSE <<>>)
                \o (IF is_right_leaf THEN <<Wire(NoId, S, n + d * nl)>>
                    ELSE <<>>)
                \o <<Wire(NoId, S, n + d * (nl + nr))>>
        node == Len(T) + 1
        T1 == Append(T, [parent |-> parent, children |-> <<>>])
        T2 == IF parent = 0 THEN T1
              ELSE [T1 EXCEPT ![parent].children = Append(@, node)]
        G1 == Append(G, NewGate(gate_type, lw, rw, ow))
        G2 == IF parent = 0 THEN G1
              ELSE IF T2[parent].children[1] = node
              THEN [G1 EXCEPT ![parent].left_wire = ow]
              ELSE IF T2[parent].children[2] = node
              THEN [G1 EXCEPT ![parent].right_wire = ow]
              ELSE G1
    IN  [tree |-> T2, gates |-> G2, wires |-> W1,
         rc |-> n + d * (nl + nr + 1), node |-> node]

(* A frame of _build_tree: its node, the two sub-expressions, and what it  *)
(* does next: "left" / "right" (recurse into that side) or "garble".       *)
Frame(node, left, right, pc) ==
    [node |-> node, left |-> left, right |-> right, pc |-> pc]

(* "gate.right_wire.identifier = right" when the right side is a leaf. *)
SetRightIdentifier(W, G, f) ==
    IF IsLeafExpr(f.right)
    THEN [W EXCEPT ![G[f.node].right_wire].identifier = LeafId(f.right)]
    ELSE W

SetLeftIdentifier(W, G, f) ==
    IF IsLeafExpr(f.left)
    THEN [W EXCEPT ![G[f.node].left_wire].identifier = LeafId(f.left)]
    ELSE W

-----------------------------------------------------------------------------
(* Circuit: what the parties do with a built circuit *)

(* anytree's node.is_leaf *)
is_leaf(T, node) == T[node].children = <<>>

RECURSIVE PostOrder(_, _)
PostOrder(T, node) ==
    LET ch == T[node].children
        F[k \in 0..Len(ch)] ==
            IF k = 0 THEN <<>> ELSE F[k - 1] \o PostOrder(T, ch[k])
    IN  Append(F[Len(ch)], node)

(* Circuit.get_input_wires, when the list is not cached yet: the wires of  *)
(* the leaf gates, in post-order of the leaves.                            *)
get_input_wires(T, G) ==
    LET IsLeaf(node) == is_leaf(T, node)
        leaves == SelectSeq(PostOrder(T, 1), IsLeaf)
    IN  [k \in 1..(2 * Len(leaves)) |->
            IF k % 2 = 1 THEN G[leaves[(k + 1) \div 2]].left_wire
            ELSE G[leaves[k \div 2]].right_wire]

(* clean setting the input wires of every gate to None and leaving its     *)
(* output wire.                                                            *)
clean_keeps_output(T, G, W, IW) ==
    [tree |-> T,
     gates |-> [i \in 1..Len(G) |->
                   [G[i] EXCEPT !.left_wire = NoWire, !.right_wire = NoWire]],
     input_wires |-> [k \in 1..Len(IW) |-> W[IW[k]]]]

(* Circuit.clean: the deep copy, with the three wire attributes of every   *)
(* gate set to None.  The copy keeps every other attribute of the circuit, *)
(* the cached input_wires list of Wire objects among them.                 *)
clean(T, G, W, IW) ==
    [tree |-> T,
     gates |-> [i \in 1..Len(G) |->
                   [G[i] EXCEPT !.left_wire = NoWire, !.right_wire = NoWire,
                                !.output_wire = NoWire]],
     input_wires |-> [k \in 1..Len(IW) |-> W[IW[k]]]]

RECURSIVE Depth(_, _)
Depth(T, node) ==
    IF T[node].parent = 0 THEN 0 ELSE 1 + Depth(T, T[node].parent)

(* The nodes in the order reconstruct visits them: the levels of           *)
(* anytree.LevelOrderGroupIter from the deepest up, each from left to      *)
(* right (node ids are given in pre-order, so within a level the smaller   *)
(* id is further left).                                                    *)
Before(T, a, b) ==
    \/ Depth(T, a) > Depth(T, b)
    \/ Depth(T, a) = Depth(T, b) /\ a < b

ReconstructOrder(T) ==
    [k \in 1..Len(T) |->
        CHOOSE a \in 1..Len(T) :
            Cardinality({b \in 1..Len(T) : Before(T, b, a)}) = k - 1]

(* Circuit.reconstruct, after the first k nodes of its order: the labels   *)
(* not popped yet, the chosen_label of every node, and whether it raised.  *)
RECURSIVE ReconstructTo(_, _, _, _)
ReconstructTo(circ, S, lbls, k) ==
    IF k = 0
    THEN [labels |-> lbls,
          chosen_label |-> [i \in 1..Len(circ.tree) |-> NoLabel],
          raised |-> FALSE]
    ELSE LET prev == ReconstructTo(circ, S, lbls, k - 1)
             node == ReconstructOrder(circ.tree)[k]
             ch == circ.tree[node].children
             leaf == is_leaf(circ.tree, node)
             short == IF leaf THEN Len(prev.labels) < 2 ELSE Len(ch) < 2
             garblers_label == IF leaf THEN prev.labels[1]
                               ELSE prev.chosen_label[ch[1]]
             evaluators_label == IF leaf THEN prev.labels[2]
                                 ELSE prev.chosen_label[ch[2]]
             output_label == ungarble(circ.gates[node], S, garblers_label,
                                      evaluators_label)
         IN  IF prev.raised THEN prev
             ELSE IF short THEN [prev EXCEPT !.raised = TRUE]
             ELSE IF output_label = Raised THEN [prev EXCEPT !.raised = TRUE]
             ELSE [labels |-> IF leaf THEN SubSeq(prev.labels, 3,
                                                  Len(prev.labels))
                              ELSE prev.labels,
                   chosen_label |-> [prev.chosen_label EXCEPT
                                        ![node] = output_label],
                   raised |-> FALSE]

reconstruct(circ, S, lbls) == ReconstructTo(circ, S, lbls, Len(circ.tree))

-----------------------------------------------------------------------------
(* Network: a message is what pickle carries; kind tells its Python type   *)
(* and role.                                                               *)
(*   "identifiers" list of str        "ACK"      the string 'ACK'          *)
(*   "label"       a Label            "ot_x"     [x0, x1, n, e]            *)
(*   "ot_v"        the int v          "ot_t"     [m0+k0, m1+k1, len, len]  *)
(*   "circuit"     a Circuit          "output"   a bool                    *)

NoCirc == [tree |-> <<>>, gates |-> <<>>, input_wires |-> <<>>]

Msg(kind) ==
    [kind |-> kind, label |-> NoLabel, m0 |-> NoLabel, m1 |-> NoLabel,
     ints |-> <<>>, ids |-> <<>>, circ |-> NoCirc, bool |-> None]

Sent(by, m) == [by |-> by, ev |-> "send", kind |-> m.kind]
Received(by, m) == [by |-> by, ev |-> "recv", kind |-> m.kind]

RECURSIVE PowMod(_, _, _)
PowMod(b, x, n) == IF x = 0 THEN 1 % n ELSE (b * PowMod(b, x - 1, n)) % n

(* random.randint(a, b), two draws from position i of the tape. *)
randint(a, b, i) == a + ((2 * Bit(i) + Bit(i + 1)) % (b - a + 1))

(* rsa.generate_private_key: a (small) key pair, n = 2 * 11 and           *)
(* e * d = 1 modulo 10.                                                    *)
private_key == [n |-> 22, e |-> 3, d |-> 7]

(* The locals of a running garbler_ot / evaluator_ot: the garbler's x0,    *)
(* x1, d, v, k0, k1 and its two messages; the evaluator's x0, x1, k, v,    *)
(* its bit b, the two masked messages it received (mask in k0, k1) and the *)
(* label it returns.                                                       *)
NoOt ==
    [x0 |-> 0, x1 |-> 0, n |-> 0, e |-> 0, d |-> 0, k |-> 0, v |-> 0,
     k0 |-> 0, k1 |-> 0, m0 |-> NoLabel, m1 |-> NoLabel, b |-> None,
     label |-> NoLabel]

-----------------------------------------------------------------------------
(* Initial states *)

Optimizations == {"classical", "point_and_permute", "grr3", "free_xor",
                  "flexor", "half_gates"}

(* gabes.settings with the flag of one optimization set (as the tests set  *)
(* them); R is not defined until a Circuit defines it.                     *)
SettingsFor(o) ==
    [CLASSICAL |-> o = "classical",
     POINT_AND_PERMUTE |-> o = "point_and_permute",
     GRR3 |-> o = "grr3",
     FREE_XOR |-> o = "free_xor",
     GRR2 |-> FALSE,
     FLEXOR |-> o = "flexor",
     HALF_GATES |-> o = "half_gates",
     R |-> Zero]

Ops == {"AND", "OR", "XOR"}

(* The leaf identifiers of an expression, in order of appearance. *)
LeafSeq(expression) ==
    LET P == {i \in DOMAIN expression : expression[i] \notin Parens \cup Ops}
        F[k \in 0..Len(expression)] ==
            IF k = 0 THEN <<>>
            ELSE IF k \in P THEN Append(F[k - 1], expression[k])
            ELSE F[k - 1]
    IN  F[Len(expression)]

(* The circuits of the runs. *)
Gate1(a, op, b) == <<a, op, b>>
Gate3(l, op, r) == <<"(">> \o l \o <<")", op, "(">> \o r \o <<")">>

Circuits ==
    { Gate1("A", "AND", "B"),
      Gate1("A", "XOR", "B"),
      Gate1("A", "OR", "B"),
      Gate3(Gate1("A", "AND", "B"), "XOR", Gate1("C", "OR", "D")),
      Gate3(Gate1("A", "XOR", "B"), "AND", Gate1("C", "XOR", "D")),
      Gate3(<<"A">>, "AND", Gate1("B", "XOR", "C")),
      Gate3(Gate1("A", "AND", "B"), "OR", <<"C">>),
      Gate3(Gate1("E", "XOR", "F"), "AND",
            Gate3(Gate1("A", "AND", "B"), "AND", Gate1("C", "XOR", "D"))) }

(* Who supplies which input: the garbler the first half of the input wires *)
(* and the evaluator the second half (as in the tests), or the garbler the *)
(* left and the evaluator the right wire of every leaf gate.               *)
Splits(expression) ==
    LET L == LeafSeq(expression)
        n == Len(L)
    IN  { [g |-> {L[i] : i \in 1..(n \div 2)},
           e |-> {L[i] : i \in (n \div 2 + 1)..n}],
          [g |-> {L[i] : i \in {j \in 1..n : j % 2 = 1}},
           e |-> {L[i] : i \in {j \in 1..n : j % 2 = 0}}] }

(* The state when both parties start, but for the identifiers they       *)
(* supply.                                                                 *)
InitCore(CS) ==
    /\ settings \in {SettingsFor(o) : o \in Optimizations}
    /\ seed \in [1..RandBits -> {0, 1}]
    /\ file \in CS
    /\ g_bits = <<>>
    /\ e_bits = <<>>
    /\ rc = 0
    /\ pcG = "Circuit"
    /\ stack = <<>>
    /\ tree = <<>>
    /\ gates = <<>>
    /\ wires = <<>>
    /\ input_wires = <<>>
    /\ garbled = <<>>
    /\ gi = 1
    /\ g_ot = NoOt
    /\ g_out = None
    /\ pcE = "request_wire_identifiers"
    /\ idents = <<>>
    /\ labels = <<>>
    /\ ei = 1
    /\ e_ot = NoOt
    /\ e_circ = NoCirc
    /\ secret_output = NoLabel
    /\ e_out = None
    /\ g2e = <<>>
    /\ e2g = <<>>
    /\ log = <<>>

InitWith(CS) ==
    /\ InitCore(CS)
    /\ \E sp \in Splits(file) :
          /\ g_args = sp.g
          /\ e_args = sp.e

Init == InitWith(Circuits)

-----------------------------------------------------------------------------
(* Garbler: Circuit(args.circuit) *)

(* Circuit.__init__ with R drawn once, whatever its last bit. *)
GCircuitNoLoop ==
    /\ pcG = "Circuit"
    /\ IF settings.FREE_XOR \/ settings.HALF_GATES
       THEN /\ settings' = [settings EXCEPT !.R = urandom(rc)]
            /\ rc' = rc + 1
       ELSE UNCHANGED <<settings, rc>>
    /\ pcG' = "build_tree"
    /\ UNCHANGED <<seed, file, g_args, e_args, g_bits, stack, tree, gates,
                   wires, input_wires, garbled, gi, g_ot, g_out, g2e, e2g,
                   log>>
    /\ UNCHANGED evars

(* Circuit.__init__, up to the call of build_tree: R is redrawn until its  *)
(* last bit is set.                                                        *)
GCircuit ==
    /\ pcG = "Circuit"
    /\ IF settings.FREE_XOR \/ settings.HALF_GATES
       THEN /\ HasDraw(1)
            /\ settings' = [settings EXCEPT !.R = urandom(FirstDraw(rc, 1))]
            /\ rc' = FirstDraw(rc, 1) + 1
       ELSE UNCHANGED <<settings, rc>>
    /\ pcG' = "build_tree"
    /\ UNCHANGED <<seed, file, g_args, e_args, g_bits, stack, tree, gates,
                   wires, input_wires, garbled, gi, g_ot, g_out, g2e, e2g,
                   log>>
    /\ UNCHANGED evars

(* The frame after entering _build_tree as far as its first recursive call *)
(* or its garble().                                                        *)
EnterPc(left, right) ==
    IF ~IsLeafExpr(left) THEN "left"
    ELSE IF ~IsLeafExpr(right) THEN "right"
    ELSE "garble"

(* Circuit._build_tree, from its call to its first recursive call: the     *)
(* expression is separated, the gate built, and a leaf side named.         *)
GBuildTree ==
    /\ pcG = "build_tree"
    /\ IF stack = <<>> THEN tree = <<>>
       ELSE stack[Len(stack)].pc \in {"left", "right"}
    /\ LET top == stack[Len(stack)]
           parent == IF stack = <<>> THEN 0 ELSE top.node
           expression == IF stack = <<>> THEN file
                         ELSE IF top.pc = "left" THEN top.left ELSE top.right
           sep == _separate(expression)
           b == _build_gate(tree, gates, wires, settings, rc, parent,
                            sep.left, sep.gate_type, sep.right)
           pc == EnterPc(sep.left, sep.right)
           f == Frame(b.node, sep.left, sep.right, pc)
           W1 == SetLeftIdentifier(b.wires, b.gates, f)
           W2 == IF pc = "garble"
                 THEN SetRightIdentifier(W1, b.gates, f) ELSE W1
       IN  IF ~sep.ok
           THEN /\ pcG' = "raised"
                /\ UNCHANGED <<stack, tree, gates, wires, rc>>
           ELSE /\ stack' = Append(stack, f)
                /\ tree' = b.tree
                /\ gates' = b.gates
                /\ wires' = W2
                /\ rc' = b.rc
                /\ pcG' = pcG
    /\ UNCHANGED <<input_wires, garbled, gi, g_ot, g_out, g2e, e2g, log>>
    /\ UNCHANGED g_bits
    /\ UNCHANGED cvars
    /\ UNCHANGED evars

(* The caller going on to garble() when its left side returns, without     *)
(* building its right side.                                                *)
ReturnPcSkipRight(f) == "garble"

(* The caller's frame once the recursive call on one side has returned:    *)
(* after the left side comes the right side (a leaf is named), after the   *)
(* right side garble().                                                    *)
ReturnPc(f) ==
    IF f.pc = "left" /\ ~IsLeafExpr(f.right) THEN "right" ELSE "garble"

(* Circuit._build_tree, from gate.garble() to the return into the caller   *)
(* and on to the caller's next call; the outermost return ends             *)
(* Circuit.__init__.                                                       *)
GGarble ==
    /\ pcG = "build_tree"
    /\ stack # <<>>
    /\ stack[Len(stack)].pc = "garble"
    /\ LET top == stack[Len(stack)]
           res == garble(wires, gates[top.node], settings, rc)
           rest == SubSeq(stack, 1, Len(stack) - 1)
           caller == rest[Len(rest)]
           W1 == IF rest # <<>> /\ caller.pc = "left"
                 THEN SetRightIdentifier(res.wires, gates, caller)
                 ELSE res.wires
       IN  /\ ~res.hang
           /\ IF res.err
              THEN /\ pcG' = "raised"
                   /\ UNCHANGED <<stack, gates, wires, rc, garbled>>
              ELSE /\ gates' = [gates EXCEPT ![top.node].table = res.table]
                   /\ wires' = W1
                   /\ rc' = res.rc
                   /\ garbled' = Append(garbled, top.node)
                   /\ stack' = IF rest = <<>> THEN rest
                               ELSE [rest EXCEPT ![Len(rest)].pc =
                                               ReturnPc(caller)]
                   /\ pcG' = IF rest = <<>> THEN "hand_over_wire_identifiers"
                             ELSE pcG
    /\ UNCHANGED <<tree, input_wires, gi, g_ot, g_out, g2e, e2g, log>>
    /\ UNCHANGED g_bits
    /\ UNCHANGED cvars
    /\ UNCHANGED evars

-----------------------------------------------------------------------------
(* Garbler: the protocol *)

(* hand_over_wire_identifiers, up to wait_for_ack. *)
GHandOverWireIdentifiers ==
    /\ pcG = "hand_over_wire_identifiers"
    /\ LET IW == get_input_wires(tree, gates)
           identifiers == [k \in 1..Len(IW) |-> wires[IW[k]].identifier]
           m == [Msg("identifiers") EXCEPT !.ids = identifiers]
       IN  /\ input_wires' = IW
           /\ g2e' = Append(g2e, m)
           /\ log' = Append(log, Sent("G", m))
    /\ pcG' = "wait_for_ack_identifiers"
    /\ UNCHANGED <<rc, stack, tree, gates, wires, garbled, gi, g_ot, g_out,
                   e2g>>
    /\ UNCHANGED g_bits
    /\ UNCHANGED cvars
    /\ UNCHANGED evars

(* wait_for_ack returning at once, without a receipt. *)
GWaitForAckEager ==
    /\ pcG \in {"wait_for_ack_identifiers", "wait_for_ack_label",
                "wait_for_ack_ot"}
    /\ pcG' = "hand_over_labels"
    /\ gi' = IF pcG = "wait_for_ack_identifiers" THEN gi ELSE gi + 1
    /\ UNCHANGED <<rc, stack, tree, gates, wires, input_wires, garbled, g_ot,
                   g_out, g2e, e2g, log>>
    /\ UNCHANGED g_bits
    /\ UNCHANGED cvars
    /\ UNCHANGED evars

(* network.wait_for_ack, one turn of its loop: a message is received, and  *)
(* anything but 'ACK' is dropped and the wait goes on.                     *)
GWaitForAck ==
    /\ pcG \in {"wait_for_ack_identifiers", "wait_for_ack_label",
                "wait_for_ack_ot"}
    /\ e2g # <<>>
    /\ LET data == Head(e2g)
       IN  /\ e2g' = Tail(e2g)
           /\ log' = Append(log, Received("G", data))
           /\ IF data.kind = "ACK"
              THEN /\ pcG' = "hand_over_labels"
                   /\ gi' = IF pcG = "wait_for_ack_identifiers" THEN gi
                            ELSE gi + 1
              ELSE UNCHANGED <<pcG, gi>>
    /\ UNCHANGED <<rc, stack, tree, gates, wires, input_wires, garbled, g_ot,
                   g_out, g2e>>
    /\ UNCHANGED g_bits
    /\ UNCHANGED cvars
    /\ UNCHANGED evars

(* garbler_ot, as far as the first message: the key pair and x0, x1. *)
OtStart(n) ==
    [NoOt EXCEPT !.x0 = randint(2, private_key.n \div 2, n),
                 !.x1 = randint(2, private_key.n \div 2, n + 2),
                 !.n = private_key.n, !.e = private_key.e,
                 !.d = private_key.d]

(* The bits args.bits may hold for an identifier: the bit already read, or *)
(* either bit when the dict is read at that identifier for the first time. *)
BitsOf(inputs, identifier) ==
    IF identifier \in DOMAIN inputs THEN {inputs[identifier]} ELSE {0, 1}

(* hand_over_labels: the check of the identifiers, and one turn of the     *)
(* loop as far as its first wait: the garbler's label is sent as it is,    *)
(* the evaluator's two labels are copied, cleaned and offered by OT.       *)
GHandOverLabels ==
    /\ pcG = "hand_over_labels"
    /\ gi <= Len(input_wires)
    /\ LET identifiers == {wires[input_wires[k]].identifier :
                              k \in 1..Len(input_wires)}
           wire == wires[input_wires[gi]]
           ot == OtStart(rc)
           om == [Msg("ot_x") EXCEPT !.ints = <<ot.x0, ot.x1, ot.n, ot.e>>]
           false_label == [wire.false_label EXCEPT !.represents = None]
           true_label == [wire.true_label EXCEPT !.represents = None]
       IN  IF ~(g_args \subseteq identifiers)
           THEN /\ pcG' = "raised"
                /\ UNCHANGED <<g2e, log, g_ot, rc, g_bits>>
           ELSE IF wire.identifier \in g_args
           THEN \E chosen_bit \in BitsOf(g_bits, wire.identifier) :
                  LET secret_label == IF chosen_bit = 1 THEN wire.true_label
                                      ELSE wire.false_label
                      lm == [Msg("label") EXCEPT !.label = secret_label]
                  IN  /\ g_bits' = (wire.identifier :> chosen_bit) @@ g_bits
                      /\ g2e' = Append(g2e, lm)
                      /\ log' = Append(log, Sent("G", lm))
                      /\ pcG' = "wait_for_ack_label"
                      /\ UNCHANGED <<g_ot, rc>>
           ELSE /\ g_ot' = [ot EXCEPT !.m0 = false_label, !.m1 = true_label]
                /\ rc' = rc + 4
                /\ g2e' = Append(g2e, om)
                /\ log' = Append(log, Sent("G", om))
                /\ pcG' = "garbler_ot"
                /\ UNCHANGED g_bits
    /\ UNCHANGED <<stack, tree, gates, wires, input_wires, garbled, gi, g_out,
                   e2g>>
    /\ UNCHANGED cvars
    /\ UNCHANGED evars

(* pow((v - x), d, n) *)
ot_k(v, x, d, n) == PowMod((v - x) % n, d, n)

(* garbler_ot, from the receipt of v as far as wait_for_ack: both messages *)
(* go out, m0 masked by k0 and m1 by k1.  Anything but an int for v makes  *)
(* the subtraction raise.                                                  *)
GGarblerOt ==
    /\ pcG = "garbler_ot"
    /\ e2g # <<>>
    /\ LET data == Head(e2g)
           v == data.ints[1]
           k0 == ot_k(v, g_ot.x0, g_ot.d, g_ot.n)
           k1 == ot_k(v, g_ot.x1, g_ot.d, g_ot.n)
           m == [Msg("ot_t") EXCEPT !.m0 = g_ot.m0, !.m1 = g_ot.m1,
                                    !.ints = <<k0, k1>>]
       IN  /\ e2g' = Tail(e2g)
           /\ IF data.kind # "ot_v"
              THEN /\ pcG' = "raised"
                   /\ log' = Append(log, Received("G", data))
                   /\ UNCHANGED <<g_ot, g2e>>
              ELSE /\ g_ot' = [g_ot EXCEPT !.v = v, !.k0 = k0, !.k1 = k1]
                   /\ g2e' = Append(g2e, m)
                   /\ log' = log \o <<Received("G", data), Sent("G", m)>>
                   /\ pcG' = "wait_for_ack_ot"
    /\ UNCHANGED <<rc, stack, tree, gates, wires, input_wires, garbled, gi,
                   g_out>>
    /\ UNCHANGED g_bits
    /\ UNCHANGED cvars
    /\ UNCHANGED evars

(* hand_over_cleaned_circuit, once the loop of hand_over_labels is over. *)
GHandOverCleanedCircuit ==
    /\ pcG = "hand_over_labels"
    /\ gi > Len(input_wires)
    /\ LET new_circ == clean(tree, gates, wires, input_wires)
           m == [Msg("circuit") EXCEPT !.circ = new_circ]
       IN  /\ g2e' = Append(g2e, m)
           /\ log' = Append(log, Sent("G", m))
    /\ pcG' = "learn_output"
    /\ UNCHANGED <<rc, stack, tree, gates, wires, input_wires, garbled, gi,
                   g_ot, g_out, e2g>>
    /\ UNCHANGED g_bits
    /\ UNCHANGED cvars
    /\ UNCHANGED evars

(* learn_output of the garbler, and the return of garbler(): the label     *)
(* received is compared (in base 64) with the true label of the root's     *)
(* output wire.  Anything but a Label has no to_base64.                    *)
GLearnOutput ==
    /\ pcG = "learn_output"
    /\ e2g # <<>>
    /\ LET output_label == Head(e2g)
           output_gate == gates[1]
           out1 == wires[output_gate.output_wire].true_label.label
           out2 == output_label.label.label
           output == IF out1 = out2 THEN 1 ELSE 0
           m == [Msg("output") EXCEPT !.bool = output]
       IN  /\ e2g' = Tail(e2g)
           /\ IF output_label.kind # "label"
              THEN /\ pcG' = "raised"
                   /\ log' = Append(log, Received("G", output_label))
                   /\ UNCHANGED <<g_out, g2e>>
              ELSE /\ g2e' = Append(g2e, m)
                   /\ log' = log \o <<Received("G", output_label),
                                      Sent("G", m)>>
                   /\ g_out' = output
                   /\ pcG' = "done"
    /\ UNCHANGED <<rc, stack, tree, gates, wires, input_wires, garbled, gi,
                   g_ot>>
    /\ UNCHANGED g_bits
    /\ UNCHANGED cvars
    /\ UNCHANGED evars

-----------------------------------------------------------------------------
(* Evaluator: the protocol *)

Ack == Msg("ACK")

(* request_wire_identifiers: the identifiers are received and              *)
(* acknowledged.                                                           *)
ERequestWireIdentifiers ==
    /\ pcE = "request_wire_identifiers"
    /\ g2e # <<>>
    /\ LET data == Head(g2e)
           identifiers == data.ids
       IN  /\ g2e' = Tail(g2e)
           /\ e2g' = Append(e2g, Ack)
           /\ log' = log \o <<Received("E", data), Sent("E", Ack)>>
           /\ idents' = identifiers
           /\ pcE' = "request_labels: check"
    /\ UNCHANGED <<labels, ei, e_ot, e_circ, secret_output, e_out>>
    /\ UNCHANGED e_bits
    /\ UNCHANGED cvars
    /\ UNCHANGED gvars

(* request_labels as far as its loop: the check of the identifiers the    *)
(* evaluator supplies against those received.                              *)
ERequestLabelsCheck ==
    /\ pcE = "request_labels: check"
    /\ pcE' = IF e_args \subseteq Range(idents)
              THEN "request_labels" ELSE "raised"
    /\ UNCHANGED <<idents, labels, ei, e_ot, e_circ, secret_output, e_out,
                   e_bits, g2e, e2g, log>>
    /\ UNCHANGED cvars
    /\ UNCHANGED gvars

(* (chosen_x + pow(k, e, n)) % n *)
ot_v(chosen_x, k, e, n) == (chosen_x + PowMod(k, e, n)) % n

(* request_labels, one turn of the loop as far as its next receipt: for    *)
(* the garbler's wire the label is received and acknowledged; for the      *)
(* evaluator's own wire evaluator_ot runs up to the sending of v.          *)
(* Unpacking anything but a list of four raises.                           *)
ERequestLabels ==
    /\ pcE = "request_labels"
    /\ ei <= Len(idents)
    /\ g2e # <<>>
    /\ LET data == Head(g2e)
           identifier == idents[ei]
           n == data.ints[3]
           e == data.ints[4]
           k == randint(2, n \div 2, 2 * ei)
       IN  /\ g2e' = Tail(g2e)
           /\ IF identifier \notin e_args
              THEN /\ labels' = Append(labels, data.label)
                   /\ e2g' = Append(e2g, Ack)
                   /\ log' = log \o <<Received("E", data), Sent("E", Ack)>>
                   /\ ei' = ei + 1
                   /\ UNCHANGED <<pcE, e_ot, e_bits>>
              ELSE IF data.kind # "ot_x"
              THEN /\ pcE' = "raised"
                   /\ log' = Append(log, Received("E", data))
                   /\ UNCHANGED <<labels, e2g, ei, e_ot, e_bits>>
              ELSE \E b \in BitsOf(e_bits, identifier) :
                     LET chosen_x == IF b = 1 THEN data.ints[2]
                                     ELSE data.ints[1]
                         v == ot_v(chosen_x, k, e, n)
                         m == [Msg("ot_v") EXCEPT !.ints = <<v>>]
                     IN  /\ e_bits' = (identifier :> b) @@ e_bits
                         /\ e_ot' = [NoOt EXCEPT !.x0 = data.ints[1],
                                                 !.x1 = data.ints[2],
                                                 !.n = n, !.e = e, !.k = k,
                                                 !.v = v, !.b = b]
                         /\ e2g' = Append(e2g, m)
                         /\ log' = log \o <<Received("E", data),
                                            Sent("E", m)>>
                         /\ pcE' = "evaluator_ot"
                         /\ UNCHANGED <<labels, ei>>
    /\ UNCHANGED <<idents, e_circ, secret_output, e_out>>
    /\ UNCHANGED cvars
    /\ UNCHANGED gvars

(* evaluator_ot, from the receipt of the two masked messages to its        *)
(* return, and labels.append: m = chosen_t - k is the chosen message when  *)
(* its mask was k, and bytes that do not unpickle otherwise.               *)
EEvaluatorOt ==
    /\ pcE = "evaluator_ot"
    /\ g2e # <<>>
    /\ LET data == Head(g2e)
           t0 == [m |-> data.m0, k |-> data.ints[1]]
           t1 == [m |-> data.m1, k |-> data.ints[2]]
           chosen_t == IF e_ot.b = 1 THEN t1 ELSE t0
       IN  /\ g2e' = Tail(g2e)
           /\ IF data.kind # "ot_t"
              THEN /\ pcE' = "raised"
                   /\ log' = Append(log, Received("E", data))
                   /\ UNCHANGED <<labels, e2g, ei, e_ot>>
              ELSE IF chosen_t.k # e_ot.k
              THEN /\ pcE' = "raised"
                   /\ e_ot' = [e_ot EXCEPT !.m0 = t0.m, !.k0 = t0.k,
                                           !.m1 = t1.m, !.k1 = t1.k]
                   /\ log' = Append(log, Received("E", data))
                   /\ UNCHANGED <<labels, e2g, ei>>
              ELSE /\ labels' = Append(labels, chosen_t.m)
                   /\ e_ot' = [e_ot EXCEPT !.m0 = t0.m, !.k0 = t0.k,
                                           !.m1 = t1.m, !.k1 = t1.k,
                                           !.label = chosen_t.m]
                   /\ e2g' = Append(e2g, Ack)
                   /\ log' = log \o <<Received("E", data), Sent("E", Ack)>>
                   /\ ei' = ei + 1
                   /\ pcE' = "request_labels"
    /\ UNCHANGED <<idents, e_circ, secret_output, e_out>>
    /\ UNCHANGED e_bits
    /\ UNCHANGED cvars
    /\ UNCHANGED gvars

(* request_cleaned_circuit, once the loop of request_labels is over. *)
ERequestCleanedCircuit ==
    /\ pcE = "request_labels"
    /\ ei > Len(idents)
    /\ g2e # <<>>
    /\ LET circuit == Head(g2e)
       IN  /\ g2e' = Tail(g2e)
           /\ log' = Append(log, Received("E", circuit))
           /\ e_circ' = circuit.circ
           /\ pcE' = IF circuit.kind = "circuit" THEN "reconstruct"
                     ELSE "raised"
    /\ UNCHANGED <<idents, labels, ei, e_ot, secret_output, e_out, e2g>>
    /\ UNCHANGED e_bits
    /\ UNCHANGED cvars
    /\ UNCHANGED gvars

(* circ.reconstruct(labels), and learn_output of the evaluator as far as   *)
(* its receipt: the label of the root is sent.                             *)
EReconstruct ==
    /\ pcE = "reconstruct"
    /\ LET r == reconstruct(e_circ, settings, labels)
           m == [Msg("label") EXCEPT !.label = r.chosen_label[1]]
       IN  IF r.raised
           THEN /\ pcE' = "raised"
                /\ UNCHANGED <<secret_output, e2g, log>>
           ELSE /\ secret_output' = r.chosen_label[1]
                /\ e2g' = Append(e2g, m)
                /\ log' = Append(log, Sent("E", m))
                /\ pcE' = "learn_output"
    /\ UNCHANGED <<idents, labels, ei, e_ot, e_circ, e_out, g2e>>
    /\ UNCHANGED e_bits
    /\ UNCHANGED cvars
    /\ UNCHANGED gvars

(* learn_output of the evaluator from its receipt, and the return of       *)
(* evaluator().                                                            *)
ELearnOutput ==
    /\ pcE = "learn_output"
    /\ g2e # <<>>
    /\ LET final_output == Head(g2e)
       IN  /\ g2e' = Tail(g2e)
           /\ log' = Append(log, Received("E", final_output))
           /\ e_out' = final_output.bool
    /\ pcE' = "done"
    /\ UNCHANGED <<idents, labels, ei, e_ot, e_circ, secret_output, e2g>>
    /\ UNCHANGED e_bits
    /\ UNCHANGED cvars
    /\ UNCHANGED gvars

Next ==
    \/ GCircuit \/ GBuildTree \/ GGarble
    \/ GHandOverWireIdentifiers \/ GWaitForAck \/ GHandOverLabels
    \/ GGarblerOt \/ GHandOverCleanedCircuit \/ GLearnOutput
    \/ ERequestWireIdentifiers \/ ERequestLabelsCheck \/ ERequestLabels
    \/ EEvaluatorOt
    \/ ERequestCleanedCircuit \/ EReconstruct \/ ELearnOutput

Spec == Init /\ [][Next]_vars

-----------------------------------------------------------------------------
(* The circuit of the tests, circuits/simple-2.circuit, with the garbler   *)
(* supplying A, B, C and the evaluator D, E, F.                            *)

Simple2 ==
    Gate3(Gate3(Gate1("A", "AND", "B"), "AND", Gate1("C", "XOR", "D")),
          "AND", Gate1("E", "XOR", "F"))

InitSimple2 ==
    /\ InitWith({Simple2})
    /\ g_args = {"A", "B", "C"}

SpecSimple2 == InitSimple2 /\ [][Next]_vars

(* The runs in which a party may name, with -i, an identifier that is no   *)
(* input wire of the circuit.                                              *)
NotInCircuit == "Z"

InitInputs ==
    /\ InitCore({Gate1("A", "AND", "B"), Gate1("A", "XOR", "B")})
    /\ \E sp \in Splits(file) :
          \E g \in SUBSET {NotInCircuit}, e \in SUBSET {NotInCircuit} :
             /\ g_args = sp.g \cup g
             /\ e_args = sp.e \cup e

SpecInputs == InitInputs /\ [][Next]_vars

-----------------------------------------------------------------------------
(* The oblivious transfer on its own, on byte strings and integers: one    *)
(* garbler_ot(client, m0, m1) against one evaluator_ot(sock, b).  A        *)
(* message is the byte string pickle.dumps gives for it (pickle.loads is   *)
(* its inverse), a byte string a sequence over Byte.                       *)

MaxOtLen == 2

Byte == {0, 1}

ByteStrings == UNION {[1..l -> Byte] : l \in 1..MaxOtLen}

(* int.from_bytes(b, byteorder='big') *)
from_bytes(b) ==
    LET F[k \in 0..Len(b)] ==
            IF k = 0 THEN 0 ELSE F[k - 1] * Cardinality(Byte) + b[k]
    IN  F[Len(b)]

RECURSIVE Power(_, _)
Power(b, x) == IF x = 0 THEN 1 ELSE b * Power(b, x - 1)

(* What to_bytes gives where Python raises OverflowError (no message is    *)
(* of length 0, so no byte string it returns is empty).                    *)
OverflowError == <<>>

(* to_bytes giving the shortest representation, whatever the length asked. *)
RECURSIVE to_bytes_unpadded(_, _)
to_bytes_unpadded(m, length) ==
    IF m < 0 \/ m >= Power(Cardinality(Byte), length) THEN OverflowError
    ELSE IF m < Cardinality(Byte) THEN <<m>>
    ELSE Append(to_bytes_unpadded(m \div Cardinality(Byte), length),
                m % Cardinality(Byte))

(* int.to_bytes(m, length=length, byteorder='big') *)
to_bytes(m, length) ==
    IF m < 0 \/ m >= Power(Cardinality(Byte), length)
    THEN OverflowError
    ELSE [i \in 1..length |->
             (m \div Power(Cardinality(Byte), length - i))
                 % Cardinality(Byte)]

InitOT ==
    /\ settings = SettingsFor("classical")
    /\ seed = [i \in 1..RandBits |-> 0]
    /\ file = <<>>
    /\ g_args = {}
    /\ e_args = {}
    /\ g_bits = <<>>
    /\ e_bits = <<>>
    /\ rc = 0
    /\ pcG = "ot: garbler_ot"
    /\ stack = <<>>
    /\ tree = <<>>
    /\ gates = <<>>
    /\ wires = <<>>
    /\ input_wires = <<>>
    /\ garbled = <<>>
    /\ gi = 1
    /\ \E m0 \in ByteStrings, m1 \in ByteStrings :
          g_ot = [NoOt EXCEPT !.m0 = m0, !.m1 = m1]
    /\ g_out = None
    /\ pcE = "ot: evaluator_ot"
    /\ idents = <<>>
    /\ labels = <<>>
    /\ ei = 1
    /\ \E b \in {0, 1} : e_ot = [NoOt EXCEPT !.b = b]
    /\ e_circ = NoCirc
    /\ secret_output = NoLabel
    /\ e_out = None
    /\ g2e = <<>>
    /\ e2g = <<>>
    /\ log = <<>>

otvars == <<settings, seed, file, g_args, e_args, g_bits, e_bits, rc, stack,
            tree, gates, wires, input_wires, garbled, gi, g_out, idents,
            labels, ei, e_circ, secret_output, e_out>>

(* garbler_ot as far as its receive_data: the key pair, x0 and x1, and the *)
(* first message.                                                          *)
OtGarblerSend ==
    /\ pcG = "ot: garbler_ot"
    /\ \E x0 \in 2..(private_key.n \div 2), x1 \in 2..(private_key.n \div 2) :
          LET m == [Msg("ot_x") EXCEPT
                       !.ints = <<x0, x1, private_key.n, private_key.e>>]
          IN  /\ g_ot' = [g_ot EXCEPT !.x0 = x0, !.x1 = x1,
                                      !.n = private_key.n,
                                      !.e = private_key.e,
                                      !.d = private_key.d]
              /\ g2e' = Append(g2e, m)
              /\ log' = Append(log, Sent("G", m))
    /\ pcG' = "ot: receive v"
    /\ UNCHANGED <<pcE, e_ot, e2g>>
    /\ UNCHANGED otvars

(* evaluator_ot as far as its second receive_data: k is drawn and v sent. *)
OtEvaluatorSend ==
    /\ pcE = "ot: evaluator_ot"
    /\ g2e # <<>>
    /\ LET data == Head(g2e)
           x0 == data.ints[1]
           x1 == data.ints[2]
           n == data.ints[3]
           e == data.ints[4]
           chosen_x == IF e_ot.b = 1 THEN x1 ELSE x0
       IN  \E k \in 2..(n \div 2) :
              LET v == ot_v(chosen_x, k, e, n)
                  m == [Msg("ot_v") EXCEPT !.ints = <<v>>]
              IN  /\ e_ot' = [e_ot EXCEPT !.x0 = x0, !.x1 = x1, !.n = n,
                                          !.e = e, !.k = k, !.v = v]
                  /\ g2e' = Tail(g2e)
                  /\ e2g' = Append(e2g, m)
                  /\ log' = log \o <<Received("E", data), Sent("E", m)>>
    /\ pcE' = "ot: receive t"
    /\ UNCHANGED <<pcG, g_ot>>
    /\ UNCHANGED otvars

(* garbler_ot from the receipt of v as far as wait_for_ack: k0 and k1, and *)
(* the two messages as integers, masked, with their lengths.               *)
OtGarblerMask ==
    /\ pcG = "ot: receive v"
    /\ e2g # <<>>
    /\ LET v == Head(e2g).ints[1]
           k0 == ot_k(v, g_ot.x0, g_ot.d, g_ot.n)
           k1 == ot_k(v, g_ot.x1, g_ot.d, g_ot.n)
           bytes_m0 == g_ot.m0
           bytes_m1 == g_ot.m1
           m0 == from_bytes(bytes_m0)
           m1 == from_bytes(bytes_m1)
           m == [Msg("ot_t") EXCEPT
                    !.ints = <<m0 + k0, m1 + k1, Len(bytes_m0),
                               Len(bytes_m1)>>]
       IN  /\ g_ot' = [g_ot EXCEPT !.v = v, !.k0 = k0, !.k1 = k1]
           /\ e2g' = Tail(e2g)
           /\ g2e' = Append(g2e, m)
           /\ log' = log \o <<Received("G", Head(e2g)), Sent("G", m)>>
    /\ pcG' = "ot: wait_for_ack"
    /\ UNCHANGED <<pcE, e_ot>>
    /\ UNCHANGED otvars

(* evaluator_ot from the receipt of the masked pair to its return: the     *)
(* chosen integer less k, turned into bytes of the chosen size and         *)
(* unpickled; to_bytes raises when the integer does not fit.               *)
OtEvaluatorLearn ==
    /\ pcE = "ot: receive t"
    /\ g2e # <<>>
    /\ LET data == Head(g2e)
           t0 == data.ints[1]
           t1 == data.ints[2]
           size_m0 == data.ints[3]
           size_m1 == data.ints[4]
           chosen_t == IF e_ot.b = 1 THEN t1 ELSE t0
           chosen_size == IF e_ot.b = 1 THEN size_m1 ELSE size_m0
           m == chosen_t - e_ot.k
           label == to_bytes(m, chosen_size)
       IN  /\ g2e' = Tail(g2e)
           /\ IF label = OverflowError
              THEN /\ pcE' = "raised"
                   /\ e_ot' = [e_ot EXCEPT !.k0 = t0, !.k1 = t1]
                   /\ log' = Append(log, Received("E", data))
                   /\ UNCHANGED e2g
              ELSE /\ pcE' = "ot: returned"
                   /\ e_ot' = [e_ot EXCEPT !.k0 = t0, !.k1 = t1,
                                           !.label = label]
                   /\ e2g' = Append(e2g, Ack)
                   /\ log' = log \o <<Received("E", data), Sent("E", Ack)>>
    /\ UNCHANGED <<pcG, g_ot>>
    /\ UNCHANGED otvars

(* wait_for_ack at the end of garbler_ot, and its return. *)
OtGarblerAck ==
    /\ pcG = "ot: wait_for_ack"
    /\ e2g # <<>>
    /\ e2g' = Tail(e2g)
    /\ log' = Append(log, Received("G", Head(e2g)))
    /\ pcG' = IF Head(e2g).kind = "ACK" THEN "ot: returned" ELSE pcG
    /\ UNCHANGED <<pcE, g_ot, e_ot, g2e>>
    /\ UNCHANGED otvars

NextOT ==
    \/ OtGarblerSend \/ OtEvaluatorSend \/ OtGarblerMask
    \/ OtEvaluatorLearn \/ OtGarblerAck

SpecOT == InitOT /\ [][NextOT]_vars

-----------------------------------------------------------------------------
(* network.py on its own: one party passes values to send_data, its peer   *)
(* calls receive_data or wait_for_ack.  The socket is a stream of bytes:   *)
(* recv hands over any non-empty prefix of what is in flight, at most as   *)
(* long as asked for, and the empty packet once the sender has closed.     *)

MaxMsgs == 2

(* 'ACK' and the other strings sent, as sequences of character codes. *)
AckStr == <<65, 67, 75>>
NetValues == {AckStr, <<>>, <<78, 79>>}

IdleShared ==
    /\ settings = SettingsFor("classical")
    /\ seed = [i \in 1..RandBits |-> 0]
    /\ file = <<>>
    /\ g_args = {}
    /\ e_args = {}

IdleGarbler ==
    /\ g_bits = <<>>
    /\ rc = 0
    /\ stack = <<>>
    /\ tree = <<>>
    /\ gates = <<>>
    /\ wires = <<>>
    /\ input_wires = <<>>
    /\ garbled = <<>>
    /\ gi = 1
    /\ g_out = None

IdleEvaluator ==
    /\ e_bits = <<>>
    /\ idents = <<>>
    /\ labels = <<>>
    /\ ei = 1
    /\ e_circ = NoCirc
    /\ secret_output = NoLabel
    /\ e_out = None

(* struct.pack('>I', n) and struct.unpack('>I', b)[0]. *)
pack_I(n) ==
    <<(n \div 16777216) % 256, (n \div 65536) % 256, (n \div 256) % 256,
      n % 256>>

unpack_I(b) == b[1] * 16777216 + b[2] * 65536 + b[3] * 256 + b[4]

(* pickle.dumps of a short string: PROTO 4, SHORT_BINUNICODE with the      *)
(* length, the characters, STOP.                                           *)
dumps(data) == <<128, 4, 140, Len(data)>> \o data \o <<46>>

PickleError == <<"UnpicklingError">>

(* pickle.loads: the string, or the error for bytes no dumps produced. *)
loads(data) ==
    IF /\ Len(data) >= 5
       /\ SubSeq(data, 1, 3) = <<128, 4, 140>>
       /\ Len(data) = data[4] + 5
       /\ data[Len(data)] = 46
    THEN SubSeq(data, 5, Len(data) - 1)
    ELSE PickleError

(* The receiving party's locals: the running _receive_data (what it is     *)
(* reading, num_bytes, data), the values its receive_data calls returned,  *)
(* the messages wait_for_ack read and dropped, and whether some recv       *)
(* handed over less than was asked for.                                    *)
NoRecv ==
    [stage |-> "size", num_bytes |-> 4, data |-> <<>>, returned |-> <<>>,
     dropped |-> <<>>, short |-> FALSE]

InitNet ==
    /\ IdleShared /\ IdleGarbler /\ IdleEvaluator
    /\ pcG = "net: send_data"
    /\ \E n \in 1..MaxMsgs : \E queue \in [1..n -> NetValues] :
          g_ot = [queue |-> queue, sent |-> <<>>]
    /\ pcE \in {"net: receive_data", "net: wait_for_ack"}
    /\ e_ot = NoRecv
    /\ g2e = <<>>
    /\ e2g = <<>>
    /\ log = <<>>

(* send_data(sock, data). *)
NetSendData ==
    /\ pcG = "net: send_data"
    /\ g_ot.queue # <<>>
    /\ LET data == dumps(Head(g_ot.queue))
           size == pack_I(Len(data))
       IN  g2e' = g2e \o size \o data
    /\ g_ot' = [queue |-> Tail(g_ot.queue),
                sent |-> Append(g_ot.sent, Head(g_ot.queue))]
    /\ UNCHANGED <<pcG, pcE, e_ot, e2g, log>>
    /\ UNCHANGED otvars

(* sock.close() once everything has been sent. *)
NetClose ==
    /\ pcG = "net: send_data"
    /\ g_ot.queue = <<>>
    /\ pcG' = "net: closed"
    /\ UNCHANGED <<g_ot, pcE, e_ot, g2e, e2g, log>>
    /\ UNCHANGED otvars

(* What follows the return of _receive_data with `data`: in receive_data,  *)
(* the size is unpacked and the payload read next, or the payload is       *)
(* unpickled and returned; wait_for_ack then breaks on 'ACK' and calls     *)
(* receive_data again on anything else.                                    *)
AfterReceive(pc, r, data, short) ==
    IF r.stage = "size"
    THEN IF Len(data) # 4
         THEN [pc |-> "raised", r |-> [r EXCEPT !.data = data,
                                                !.short = short]]
         ELSE [pc |-> pc,
               r |-> [r EXCEPT !.stage = "data", !.num_bytes = unpack_I(data),
                               !.data = <<>>, !.short = short]]
    ELSE LET msg == loads(data)
             again == [r EXCEPT !.stage = "size", !.num_bytes = 4,
                                !.data = <<>>, !.short = short]
         IN  IF msg = PickleError
             THEN [pc |-> "raised", r |-> [r EXCEPT !.data = data,
                                                    !.short = short]]
             ELSE IF pc = "net: receive_data"
             THEN [pc |-> pc,
                   r |-> [again EXCEPT !.returned = Append(@, msg)]]
             ELSE IF msg = AckStr
             THEN [pc |-> "net: returned", r |-> again]
             ELSE [pc |-> pc, r |-> [again EXCEPT !.dropped = Append(@, msg)]]

(* _receive_data with a single recv in place of its loop. *)
NetRecvOnce ==
    /\ pcE \in {"net: receive_data", "net: wait_for_ack"}
    /\ g2e # <<>>
    /\ LET asked == e_ot.num_bytes - Len(e_ot.data)
           most == IF asked < Len(g2e) THEN asked ELSE Len(g2e)
       IN  \E k \in 1..most :
              LET packet == SubSeq(g2e, 1, k)
                  data == e_ot.data \o packet
                  after == AfterReceive(pcE, e_ot, data, e_ot.short \/ k < asked)
              IN  /\ g2e' = SubSeq(g2e, k + 1, Len(g2e))
                  /\ e_ot' = after.r
                  /\ pcE' = after.pc
    /\ UNCHANGED <<pcG, g_ot, e2g, log>>
    /\ UNCHANGED otvars

(* One sock.recv(num_bytes - len(data)) of _receive_data that hands over a *)
(* packet, and the rest of the loop body; when data is complete, what      *)
(* receive_data and its caller do with it.                                 *)
NetRecv ==
    /\ pcE \in {"net: receive_data", "net: wait_for_ack"}
    /\ g2e # <<>>
    /\ LET asked == e_ot.num_bytes - Len(e_ot.data)
           most == IF asked < Len(g2e) THEN asked ELSE Len(g2e)
       IN  \E k \in 1..most :
              LET packet == SubSeq(g2e, 1, k)
                  data == e_ot.data \o packet
                  short == e_ot.short \/ k < asked
                  after == AfterReceive(pcE, e_ot, data, short)
              IN  /\ g2e' = SubSeq(g2e, k + 1, Len(g2e))
                  /\ IF Len(data) < e_ot.num_bytes
                     THEN /\ e_ot' = [e_ot EXCEPT !.data = data,
                                                  !.short = short]
                          /\ pcE' = pcE
                     ELSE /\ e_ot' = after.r
                          /\ pcE' = after.pc
    /\ UNCHANGED <<pcG, g_ot, e2g, log>>
    /\ UNCHANGED otvars

(* sock.recv on a closed, drained connection: the empty packet breaks the  *)
(* loop and _receive_data returns what it has.                             *)
NetRecvEof ==
    /\ pcE \in {"net: receive_data", "net: wait_for_ack"}
    /\ g2e = <<>>
    /\ pcG = "net: closed"
    /\ LET after == AfterReceive(pcE, e_ot, e_ot.data, e_ot.short)
       IN  /\ e_ot' = after.r
           /\ pcE' = after.pc
    /\ UNCHANGED <<pcG, g_ot, g2e, e2g, log>>
    /\ UNCHANGED otvars

NextNet == NetSendData \/ NetClose \/ NetRecv \/ NetRecvEof

SpecNet == InitNet /\ [][NextNet]_vars

-----------------------------------------------------------------------------
(* crypto.AESKey on its own: one message is encrypted and the result       *)
(* decrypted, both in the default padded mode.  Bytes are integers; the    *)
(* ECB cipher is a keyed permutation of the bytes of each block.           *)

MaxPadLen == 4

BlockSize == 16

Zeros(n) == [i \in 1..n |-> 0]

(* The messages encrypted: every string of up to MaxPadLen bytes, and      *)
(* strings that fill the first block, with the size, to one byte short of  *)
(* the boundary, to it and past it.                                        *)
PadInputs ==
    UNION {[1..l -> Byte] : l \in 0..MaxPadLen}
      \cup {[i \in 1..l |-> 255] : l \in {BlockSize - 5, BlockSize - 4,
                                          BlockSize - 3}}

AesKeys == {3, 250}

pad(msg, size) ==
    LET with_size == pack_I(Len(msg)) \o msg
        padded == with_size \o Zeros((size - (Len(with_size) % size)) % size)
    IN  padded

unpad(msg) ==
    LET n == unpack_I(SubSeq(msg, 1, 4))
    IN  IF n # 0 THEN SubSeq(msg, 5, IF n + 4 < Len(msg) THEN n + 4
                                     ELSE Len(msg))
        ELSE msg

cipher_encrypt(key, msg) == [i \in 1..Len(msg) |-> (msg[i] + key + i) % 256]

cipher_decrypt(key, msg) ==
    [i \in 1..Len(msg) |-> (msg[i] + 512 - key - i) % 256]

AESKey_encrypt(key, msg, pad_) ==
    LET msg_ == IF pad_ THEN pad(msg, BlockSize) ELSE msg
        cip == cipher_encrypt(key, msg_)
    IN  cip

AESKey_decrypt(key, msg, unpad_) ==
    LET t == cipher_decrypt(key, msg)
    IN  IF unpad_ THEN unpad(t) ELSE t

InitAes ==
    /\ IdleShared /\ IdleGarbler /\ IdleEvaluator
    /\ pcG = "aes: encrypt"
    /\ \E key \in AesKeys, msg \in PadInputs :
          g_ot = [key |-> key, msg |-> msg, cip |-> <<>>, t |-> <<>>]
    /\ pcE = "done"
    /\ e_ot = NoOt
    /\ g2e = <<>>
    /\ e2g = <<>>
    /\ log = <<>>

AesEncrypt ==
    /\ pcG = "aes: encrypt"
    /\ g_ot' = [g_ot EXCEPT !.cip = AESKey_encrypt(g_ot.key, g_ot.msg, TRUE)]
    /\ pcG' = "aes: decrypt"
    /\ UNCHANGED <<pcE, e_ot, g2e, e2g, log>>
    /\ UNCHANGED otvars

AesDecrypt ==
    /\ pcG = "aes: decrypt"
    /\ g_ot' = [g_ot EXCEPT !.t = AESKey_decrypt(g_ot.key, g_ot.cip, TRUE)]
    /\ pcG' = "aes: decrypted"
    /\ UNCHANGED <<pcE, e_ot, g2e, e2g, log>>
    /\ UNCHANGED otvars

NextAes == AesEncrypt \/ AesDecrypt

SpecAes == InitAes /\ [][NextAes]_vars

-----------------------------------------------------------------------------
(* utils.xor on byte strings of any length: xor(b1, b2) and then           *)
(* xor(b1, xor(b1, b2)).  Bytes are integers, most significant first.      *)

MaxXorLen == 2

NUM_BYTES == 32

(* The arguments: every pair of strings of the same length up to           *)
(* MaxXorLen, and pairs of the documented length, of NUM_BYTES and of one  *)
(* byte more.                                                              *)
XorBytes == {0, 1, 255}

XorInputs ==
    UNION {[1..l -> XorBytes] \X [1..l -> XorBytes] : l \in 1..MaxXorLen}
      \cup {<<[i \in 1..l |-> c1], [i \in 1..l |-> c2]>> :
               l \in {10, NUM_BYTES, NUM_BYTES + 1},
               c1 \in XorBytes, c2 \in XorBytes}

(* n1 ^ n2 on two bytes. *)
RECURSIVE xor_int(_, _)
xor_int(n1, n2) ==
    IF n1 = 0 THEN n2
    ELSE IF n2 = 0 THEN n1
    ELSE 2 * xor_int(n1 \div 2, n2 \div 2) + ((n1 + n2) % 2)

(* The big-endian digit of weight 256^k of the integer a byte string is. *)
Digit(b, k) == IF k < Len(b) THEN b[Len(b) - k] ELSE 0

(* utils.xor: the two integers read big-endian, their ^, written on        *)
(* NUM_BYTES bytes; int.to_bytes raises OverflowError when it is too big.  *)
xor_bytes(b1, b2) ==
    LET longest == IF Len(b1) < Len(b2) THEN Len(b2) ELSE Len(b1)
        xored == [k \in 0..(longest - 1) |->
                     xor_int(Digit(b1, k), Digit(b2, k))]
    IN  IF \E k \in NUM_BYTES..(longest - 1) : xored[k] # 0
        THEN OverflowError
        ELSE [i \in 1..NUM_BYTES |->
                 IF NUM_BYTES - i < longest THEN xored[NUM_BYTES - i] ELSE 0]

InitXor ==
    /\ IdleShared /\ IdleGarbler /\ IdleEvaluator
    /\ pcG = "xor: inner"
    /\ \E ab \in XorInputs :
          g_ot = [a |-> ab[1], b |-> ab[2], inner |-> <<>>, outer |-> <<>>]
    /\ pcE = "done"
    /\ e_ot = NoOt
    /\ g2e = <<>>
    /\ e2g = <<>>
    /\ log = <<>>

(* xor(a, b) *)
XorInner ==
    /\ pcG = "xor: inner"
    /\ LET inner == xor_bytes(g_ot.a, g_ot.b)
       IN  /\ g_ot' = [g_ot EXCEPT !.inner = inner]
           /\ pcG' = IF inner = OverflowError THEN "raised" ELSE "xor: outer"
    /\ UNCHANGED <<pcE, e_ot, g2e, e2g, log>>
    /\ UNCHANGED otvars

(* xor(a, xor(a, b)) *)
XorOuter ==
    /\ pcG = "xor: outer"
    /\ LET outer == xor_bytes(g_ot.a, g_ot.inner)
       IN  /\ g_ot' = [g_ot EXCEPT !.outer = outer]
           /\ pcG' = IF outer = OverflowError THEN "raised" ELSE "xor: done"
    /\ UNCHANGED <<pcE, e_ot, g2e, e2g, log>>
    /\ UNCHANGED otvars

NextXor == XorInner \/ XorOuter

SpecXor == InitXor /\ [][NextXor]_vars

-----------------------------------------------------------------------------
(* Circuit._separate on its own, on every grammatical expression of a      *)
(* bounded nesting depth that is not a single identifier.                  *)

MaxDepth == 2

(* expr := leaf | '(' expr ')' OP '(' expr ')' | leaf OP leaf *)
RECURSIVE Expressions(_)
Expressions(depth) ==
    IF depth = 0 THEN {<<"A">>}
    ELSE LET E == Expressions(depth - 1)
         IN  {<<"A">>}
               \cup {Gate1("A", op, "A") : op \in Ops}
               \cup {Gate3(e[1], op, e[2]) : e \in E \X E, op \in Ops}

InitSeparate ==
    /\ settings = SettingsFor("classical")
    /\ seed = [i \in 1..RandBits |-> 0]
    /\ \E op \in Ops :
          \/ /\ file = Gate1("A", op, "A")
             /\ g_ot = [left |-> <<"A">>, gate_type |-> op,
                        right |-> <<"A">>, separated |-> <<>>]
          \/ \E LEFT \in Expressions(MaxDepth - 1),
                RIGHT \in Expressions(MaxDepth - 1) :
                /\ file = Gate3(LEFT, op, RIGHT)
                /\ g_ot = [left |-> LEFT, gate_type |-> op,
                           right |-> RIGHT, separated |-> <<>>]
    /\ g_args = {}
    /\ e_args = {}
    /\ IdleGarbler /\ IdleEvaluator
    /\ pcG = "_separate"
    /\ pcE = "done"
    /\ e_ot = NoOt
    /\ g2e = <<>>
    /\ e2g = <<>>
    /\ log = <<>>

(* left, gate_type, right = self._separate(expression) *)
SeparateCall ==
    /\ pcG = "_separate"
    /\ g_ot' = [g_ot EXCEPT !.separated = _separate(file)]
    /\ pcG' = "_separate: returned"
    /\ UNCHANGED <<pcE, e_ot, g2e, e2g, log>>
    /\ UNCHANGED otvars

NextSeparate == SeparateCall

SpecSeparate == InitSeparate /\ [][NextSeparate]_vars

-----------------------------------------------------------------------------
(* __main__.sanitize_optimizations on its own: gabes.settings as the       *)
(* module defines it, and a command line with any of the six optimization  *)
(* options given.                                                          *)

Flags == {"CLASSICAL", "POINT_AND_PERMUTE", "GRR3", "FREE_XOR", "FLEXOR",
          "HALF_GATES"}

(* gabes/settings.py as imported. *)
DefaultSettings ==
    [CLASSICAL |-> TRUE,
     POINT_AND_PERMUTE |-> FALSE,
     GRR3 |-> FALSE,
     FREE_XOR |-> FALSE,
     GRR2 |-> FALSE,
     FLEXOR |-> FALSE,
     HALF_GATES |-> FALSE,
     R |-> Zero]

InitFlags ==
    /\ settings = DefaultSettings
    /\ seed = [i \in 1..RandBits |-> 0]
    /\ file = <<>>
    /\ g_args = {}
    /\ e_args = {}
    /\ IdleGarbler /\ IdleEvaluator
    /\ pcG = "sanitize_optimizations"
    /\ \E given \in SUBSET Flags :
          g_ot = [classical |-> "CLASSICAL" \in given,
                  point_and_permute |-> "POINT_AND_PERMUTE" \in given,
                  grr3 |-> "GRR3" \in given,
                  free_xor |-> "FREE_XOR" \in given,
                  flexor |-> "FLEXOR" \in given,
                  half_gates |-> "HALF_GATES" \in given]
    /\ pcE = "done"
    /\ e_ot = NoOt
    /\ g2e = <<>>
    /\ e2g = <<>>
    /\ log = <<>>

(* sanitize_optimizations: parser.error exits; otherwise the six settings  *)
(* are assigned from the options.                                          *)
SanitizeOptimizations ==
    /\ pcG = "sanitize_optimizations"
    /\ LET args == g_ot
           error ==
               \/ /\ args.classical
                  /\ \/ args.point_and_permute \/ args.grr3 \/ args.free_xor
                     \/ args.flexor \/ args.half_gates
               \/ /\ args.point_and_permute
                  /\ \/ args.classical \/ args.grr3 \/ args.free_xor
                     \/ args.flexor \/ args.half_gates
               \/ args.free_xor /\ args.flexor
               \/ args.flexor /\ args.half_gates
       IN  IF error
           THEN /\ pcG' = "exit"
                /\ UNCHANGED settings
           ELSE /\ pcG' = "main"
                /\ settings' = [settings EXCEPT
                       !.CLASSICAL = args.classical,
                       !.POINT_AND_PERMUTE = args.point_and_permute,
                       !.GRR3 = args.grr3,
                       !.FREE_XOR = args.free_xor,
                       !.FLEXOR = args.flexor,
                       !.HALF_GATES = args.half_gates]
    /\ UNCHANGED <<seed, file, g_args, e_args, g_bits, e_bits, rc, stack,
                   tree, gates, wires, input_wires, garbled, gi, g_ot, g_out,
                   pcE, idents, labels, ei, e_ot, e_circ, secret_output,
                   e_out, g2e, e2g, log>>

NextFlags == SanitizeOptimizations

SpecFlags == InitFlags /\ [][NextFlags]_vars

-----------------------------------------------------------------------------
(* Gate.flexor_garble on one XOR gate whose three wires carry labels drawn *)
(* from a small set of byte strings, so that the offsets of two wires can  *)
(* be equal; the two labels of a wire differ.                              *)

(* The label bytes: the strings over two blocks, one of last bit 0 and one *)
(* of last bit 1.                                                          *)
FlexLabels ==
    SUBSET {Atom("urandom", 8, {}, {}, {}, 0),
            Atom("urandom", 9, {}, {}, {}, 1)}

(* A wire with the two label byte strings given. *)
FlexWire(false_bytes, true_bytes) ==
    [identifier |-> NoId,
     false_label |-> [label |-> false_bytes, represents |-> 0, pp_bit |-> 0],
     true_label |-> [label |-> true_bytes, represents |-> 1, pp_bit |-> 1]]

InitFlexor ==
    /\ settings = SettingsFor("flexor")
    /\ seed \in [1..RandBits -> {0, 1}]
    /\ file = <<>>
    /\ g_args = {}
    /\ e_args = {}
    /\ g_bits = <<>>
    /\ rc = 0
    /\ stack = <<>>
    /\ tree = <<>>
    /\ gates = <<NewGate("XOR", 1, 2, 3)>>
    /\ \E A0 \in FlexLabels, A1 \in FlexLabels, B0 \in FlexLabels,
          B1 \in FlexLabels, C0 \in FlexLabels, C1 \in FlexLabels :
          /\ A0 # A1 /\ B0 # B1 /\ C0 # C1
          /\ wires = <<FlexWire(A0, A1), FlexWire(B0, B1), FlexWire(C0, C1)>>
    /\ input_wires = <<>>
    /\ garbled = <<>>
    /\ gi = 1
    /\ g_out = None
    /\ IdleEvaluator
    /\ pcG = "flexor: garble"
    /\ pcE = "done"
    /\ g_ot = NoOt
    /\ e_ot = NoOt
    /\ g2e = <<>>
    /\ e2g = <<>>
    /\ log = <<>>

(* gate.garble() under FLEXOR: the output wire, the select bits and the    *)
(* table after it; settings.R is not defined, so the free XOR branch       *)
(* raises with the table emptied.                                          *)
FlexorGarble ==
    /\ pcG = "flexor: garble"
    /\ LET res == flexor_garble(wires, gates[1], settings, rc)
           empty == [j \in 1..4 |-> NoEntry]
       IN  /\ ~res.hang
           /\ IF res.err
              THEN /\ pcG' = "raised"
                   /\ gates' = [gates EXCEPT ![1].table = empty]
                   /\ UNCHANGED <<wires, rc, garbled>>
              ELSE /\ pcG' = "flexor: garbled"
                   /\ gates' = [gates EXCEPT ![1].table = res.table]
                   /\ wires' = res.wires
                   /\ rc' = res.rc
                   /\ garbled' = Append(garbled, 1)
    /\ UNCHANGED <<settings, seed, file, g_args, e_args, g_bits, stack, tree,
                   input_wires, gi, g_out, g_ot>>
    /\ UNCHANGED <<e_bits, idents, labels, ei, e_circ, secret_output, e_out,
                   pcE, e_ot, g2e, e2g, log>>

NextFlexor == FlexorGarble

SpecFlexor == InitFlexor /\ [][NextFlexor]_vars

-----------------------------------------------------------------------------
(* The runs in which each party names, with -i, any set of input wires of  *)
(* the circuit: a wire may be named by both parties or by neither.         *)
InitAnySets ==
    /\ InitCore({Gate1("A", "AND", "B"), Gate1("A", "XOR", "B")})
    /\ g_args \in SUBSET Range(LeafSeq(file))
    /\ e_args \in SUBSET Range(LeafSeq(file))

SpecAnySets == InitAnySets /\ [][Next]_vars

-----------------------------------------------------------------------------
(* Properties *)

(* C(x): the value of the expression on the inputs. *)
RECURSIVE Value(_, _)
Value(expression, inputs) ==
    IF IsLeafExpr(expression) THEN inputs[LeafId(expression)]
    ELSE LET sep == _separate(expression)
         IN  evaluate_gate(sep.gate_type, Value(sep.left, inputs),
                           Value(sep.right, inputs))

(* The input assignment of the run, once both parties have read theirs. *)
Inputs == g_bits @@ e_bits

Completed == pcG = "done" /\ pcE = "done"

(* C1: under every optimization, for every circuit and every input         *)
(* assignment, Circuit.reconstruct on the labels of the inputs (in         *)
(* input-wire order) returns the label of the root's output wire that      *)
(* represents the value of the circuit.                                    *)
C1_ReconstructYieldsValue ==
    pcE \in {"learn_output", "done"} =>
        secret_output.label =
            get_label(wires[gates[1].output_wire], Value(file, Inputs)).label

(* C2: for the circuit ((A AND B) AND (C XOR D)) AND (E XOR F), garbler    *)
(* supplying A, B, C and evaluator D, E, F, under each optimization and    *)
(* for every bit assignment, neither party raises and a completed run has  *)
(* garbler() and evaluator() return the same boolean, the value of the     *)
(* circuit on those bits.                                                  *)
C2_Simple2SameBoolean ==
    /\ pcG # "raised"
    /\ pcE # "raised"
    /\ Completed => /\ g_out = e_out
                    /\ g_out = Value(file, Inputs)

(* A completed half-gates run of the test's true case: G = 111, E = 001. *)
C2_Witness ==
    /\ Completed
    /\ settings.HALF_GATES
    /\ g_bits = [x \in {"A", "B", "C"} |-> 1]
    /\ e_bits = [x \in {"D", "E", "F"} |-> IF x = "F" THEN 1 ELSE 0]
    /\ g_out = 1
    /\ e_out = 1

(* The labels held in the attributes of a circuit object as it is sent:    *)
(* its gates refer to no wire any more, so they are the labels of the      *)
(* wires in its input_wires list.                                          *)
LabelsOf(circ) ==
    {circ.input_wires[k].false_label : k \in 1..Len(circ.input_wires)}
    \cup {circ.input_wires[k].true_label : k \in 1..Len(circ.input_wires)}

(* C3: the circuit hand_over_cleaned_circuit sends holds, in its           *)
(* attributes, no Label whose represents is set.                           *)
C3_CleanedCircuitHidesRepresents ==
    \A i \in 1..Len(g2e) :
        g2e[i].kind = "circuit" =>
            \A l \in LabelsOf(g2e[i].circ) : l.represents = None

(* C4: every Label the garbler sends during hand_over_labels, as plain     *)
(* data or as one of the two messages of an OT, has represents None when   *)
(* it is sent.                                                             *)
C4_SentLabelsHideRepresents ==
    \A i \in 1..Len(g2e) :
        /\ g2e[i].kind = "label" => g2e[i].label.represents = None
        /\ g2e[i].kind = "ot_t" => /\ g2e[i].m0.represents = None
                                   /\ g2e[i].m1.represents = None

(* The label bytes the evaluator holds in the clear in what it has         *)
(* received (without decrypting anything): the labels request_labels       *)
(* returned and the labels inside the circuit object.                      *)
EvaluatorReads ==
    {labels[i].label : i \in 1..Len(labels)}
    \cup {l.label : l \in LabelsOf(e_circ)}

(* C5: in one execution there is no wire, input wires included, of which   *)
(* the evaluator obtains both the false label and the true label.          *)
C5_AtMostOneLabelPerWire ==
    \A w \in 1..Len(wires) :
        ~ /\ wires[w].false_label.label \in EvaluatorReads
          /\ wires[w].true_label.label \in EvaluatorReads

(* C6: in every optimization but classical, at every moment from the       *)
(* creation of a wire on (after every garble step in particular), the      *)
(* two labels of the wire have their pp_bit set, and set differently.      *)
C6_PPBitsDiffer ==
    ~settings.CLASSICAL =>
        \A w \in 1..Len(wires) :
            /\ wires[w].false_label.pp_bit \in {0, 1}
            /\ wires[w].true_label.pp_bit \in {0, 1}
            /\ wires[w].false_label.pp_bit # wires[w].true_label.pp_bit

(* A FleXOR circuit whose XOR gate, fed by two gates, has been garbled     *)
(* (modify_pp_bits has rewritten the bits of three wires).                 *)
C6_Witness ==
    /\ settings.FLEXOR
    /\ pcG = "hand_over_wire_identifiers"
    /\ Len(gates) = 3
    /\ gates[1].gate_type = "XOR"

C8_OtReturnsChosen ==
    /\ pcE # "raised"
    /\ pcE = "ot: returned" =>
           e_ot.label = IF e_ot.b = 1 THEN g_ot.m1 ELSE g_ot.m0

(* An OT that has returned m1, a message with a leading zero byte and of   *)
(* another length than m0.                                                 *)
C8_Witness ==
    /\ pcE = "ot: returned"
    /\ e_ot.b = 1
    /\ g_ot.m0 = <<1>>
    /\ g_ot.m1 = <<0, 1>>
    /\ e_ot.label = <<0, 1>>

(* C9: in every OT run, for all x0, x1 and k that can be sampled, exactly  *)
(* one of the garbler's k0, k1 equals the evaluator's k.                   *)
C9_ExactlyOneMaskIsK ==
    pcG \in {"ot: wait_for_ack", "ot: returned"} =>
        (g_ot.k0 = e_ot.k) # (g_ot.k1 = e_ot.k)

(* The messages sent so far, in order. *)
Sends ==
    LET IsSend(x) == x.ev = "send" IN SelectSeq(log, IsSend)

(* The messages of one input wire: the label and its ACK, or the four of   *)
(* an OT.                                                                  *)
WireMessages(identifier) ==
    IF identifier \in g_args
    THEN <<Sent("G", Msg("label")), Sent("E", Msg("ACK"))>>
    ELSE <<Sent("G", Msg("ot_x")), Sent("E", Msg("ot_v")),
           Sent("G", Msg("ot_t")), Sent("E", Msg("ACK"))>>

(* The message sequence of a whole run. *)
ExpectedSends ==
    LET F[k \in 0..Len(input_wires)] ==
            IF k = 0 THEN <<>>
            ELSE F[k - 1] \o WireMessages(wires[input_wires[k]].identifier)
    IN  <<Sent("G", Msg("identifiers")), Sent("E", Msg("ACK"))>>
        \o F[Len(input_wires)]
        \o <<Sent("G", Msg("circuit")), Sent("E", Msg("label")),
             Sent("G", Msg("output"))>>

(* What the garbler did last before entry i of the log. *)
LastOfGarblerBefore(i) ==
    LET before == {j \in 1..(i - 1) : log[j].by = "G"}
    IN  IF before = {} THEN Sent("G", Msg(""))
        ELSE log[CHOOSE j \in before : \A h \in before : h <= j]

(* C10: in a completed run the messages are, in order, the identifiers     *)
(* (G), ACK (E), for each input wire in order the label (G) and ACK (E) or *)
(* the four OT messages, the circuit (G), the final label (E) and the      *)
(* boolean (G); and the garbler sends the first message of a wire only     *)
(* when the last thing it did was to receive an ACK.                       *)
C10_MessageOrder ==
    /\ Completed => Sends = ExpectedSends
    /\ \A i \in 1..Len(log) :
           (/\ log[i].by = "G"
            /\ log[i].ev = "send"
            /\ log[i].kind \in {"label", "ot_x"}) =>
               LastOfGarblerBefore(i) = Received("G", Msg("ACK"))

(* A completed run of a three-gate circuit in which labels went both ways: *)
(* in the clear and by OT.                                                 *)
C10_Witness ==
    /\ Completed
    /\ Len(gates) = 3
    /\ \E i \in 1..Len(log) : log[i].kind = "ot_t"
    /\ \E i \in 1..Len(log) : log[i] = Sent("G", Msg("label"))

(* C11: a party in wait_for_ack that receives anything other than 'ACK'    *)
(* aborts: once wait_for_ack has read a message that is not 'ACK', the     *)
(* party has raised and goes no further.                                   *)
C11_NonAckIsFatal ==
    e_ot.dropped # <<>> => pcE = "raised"

(* C14: the values receive_data has returned are the values passed to      *)
(* send_data, equal and in sending order, whatever packets recv handed     *)
(* over; receive_data raises only when the sender has closed and every     *)
(* value sent has been returned.                                           *)
C14_ReceivedAsSent ==
    /\ Len(e_ot.returned) <= Len(g_ot.sent)
    /\ e_ot.returned = SubSeq(g_ot.sent, 1, Len(e_ot.returned))
    /\ pcE = "raised" =>
          /\ pcG = "net: closed"
          /\ e_ot.dropped \o e_ot.returned = g_ot.sent

(* Two values have come through a stream that split them into packets     *)
(* shorter than what recv was asked for.                                   *)
C14_Witness ==
    /\ pcE = "net: receive_data"
    /\ e_ot.short
    /\ Len(e_ot.returned) = 2
    /\ e_ot.returned[1] # e_ot.returned[2]
    /\ e_ot.returned = g_ot.sent

(* C12: for every byte string m, the empty one included, decrypting the    *)
(* encryption of m in the padded mode gives m back, and so does unpadding  *)
(* the padding of m.                                                       *)
C12_DecryptEncrypt ==
    pcG = "aes: decrypted" =>
        /\ g_ot.t = g_ot.msg
        /\ unpad(pad(g_ot.msg, BlockSize)) = g_ot.msg

(* C13: for all byte strings a and b of the same length, xor(a, xor(a, b)) *)
(* is defined and equals b.                                                *)
C13_XorSelfInverse ==
    /\ pcG = "xor: done" => g_ot.outer = g_ot.b
    /\ pcG # "raised"

(* The labels that have left the garbler's process: the label messages    *)
(* and the oblivious transfers it has sent.                                *)
LabelsSent ==
    {i \in 1..Len(log) : /\ log[i].by = "G"
                         /\ log[i].ev = "send"
                         /\ log[i].kind \in {"label", "ot_x", "ot_t"}}

(* C15: when hand_over_labels, or request_labels, raises because the party *)
(* supplies an identifier that is no input wire of the circuit, no label   *)
(* has been sent, no oblivious transfer started and no label received: no  *)
(* label has left the garbler's process at the step that raises.           *)
C15_InputErrorBeforeLabels ==
    [][/\ (pcG = "hand_over_labels" /\ pcG' = "raised") =>
             /\ LabelsSent' = {}
             /\ labels' = <<>>
       /\ (pcE = "request_labels: check" /\ pcE' = "raised") =>
             /\ LabelsSent' = {}
             /\ labels' = <<>>]_vars

(* C16: for (LEFT) OP (RIGHT) with LEFT and RIGHT grammatical, nested      *)
(* parentheses included, _separate returns exactly LEFT, OP and RIGHT; for *)
(* the parenthesis-free l OP r it returns the three tokens.                *)
C16_SeparateSplits ==
    pcG = "_separate: returned" =>
        g_ot.separated = Separated(TRUE, g_ot.left, g_ot.gate_type, g_ot.right)

(* _separate has split an expression whose two sides both hold            *)
(* parentheses of their own, and differ.                                   *)
C16_Witness ==
    /\ pcG = "_separate: returned"
    /\ "(" \in Range(g_ot.left)
    /\ "(" \in Range(g_ot.right)
    /\ g_ot.left # g_ot.right
    /\ g_ot.separated.ok
    /\ g_ot.separated.left = g_ot.left
    /\ g_ot.separated.right = g_ot.right

(* The number of operators of an expression. *)
NumOps(expression) ==
    Cardinality({i \in DOMAIN expression : expression[i] \in Ops})

(* The subtree at node is the tree of the expression: the node's gate has  *)
(* the operator as its gate_type, the tree of LEFT is the first child and  *)
(* the tree of RIGHT the second; a side that is an identifier has none.    *)
RECURSIVE TreeOf(_, _, _, _)
TreeOf(T, G, node, expression) ==
    LET sep == _separate(expression)
        ch == T[node].children
    IN  /\ sep.ok
        /\ G[node].gate_type = sep.gate_type
        /\ ~IsLeafExpr(sep.left) =>
              Len(ch) >= 1 /\ TreeOf(T, G, ch[1], sep.left)
        /\ ~IsLeafExpr(sep.right) =>
              Len(ch) >= 2 /\ TreeOf(T, G, ch[2], sep.right)
        /\ IsLeafExpr(sep.left) /\ IsLeafExpr(sep.right) => ch = <<>>

(* anytree.LevelOrderIter: the gate types level by level, root first. *)
LevelOrderTypes(T, G) ==
    [k \in 1..Len(T) |->
        G[CHOOSE a \in 1..Len(T) :
            Cardinality({b \in 1..Len(T) :
                            \/ Depth(T, b) < Depth(T, a)
                            \/ Depth(T, b) = Depth(T, a) /\ b < a}) = k - 1
         ].gate_type]

(* C17: once build_tree is over, the tree has one node per operator of the *)
(* expression, each with the operator as gate_type, the tree of LEFT as    *)
(* first child and the tree of RIGHT as second child; for simple-2 the     *)
(* gate types in level order are AND, AND, XOR, AND, XOR.                  *)
C17_TreeFollowsExpression ==
    pcG \notin {"Circuit", "build_tree"} =>
        /\ Len(tree) = NumOps(file)
        /\ TreeOf(tree, gates, 1, file)
        /\ file = Simple2 =>
              LevelOrderTypes(tree, gates) = <<"AND", "AND", "XOR", "AND", "XOR">>

(* C18: the list get_input_wires returns carries the leaf identifiers of   *)
(* the expression, each once and in the post-order of the leaf gates (left *)
(* wire, then right wire), with no wire left unnamed; once computed, the   *)
(* list stays as it is.                                                    *)
C18_InputWiresAreLeaves ==
    [][/\ input_wires' # <<>> =>
             [k \in 1..Len(input_wires') |->
                 wires'[input_wires'[k]].identifier] = LeafSeq(file')
       /\ input_wires # <<>> => input_wires' = input_wires]_vars

(* C19: once sanitize_optimizations has accepted the command line, exactly *)
(* one of the six optimization flags of settings is set, and it is         *)
(* CLASSICAL when the command line names no optimization.                  *)
C19_ExactlyOneFlag ==
    pcG = "main" =>
        /\ Cardinality({f \in Flags : settings[f]}) = 1
        /\ (\A o \in DOMAIN g_ot : ~g_ot[o]) => settings.CLASSICAL

(* The labels of a wire whose pp_bit is false. *)
PPFalse(w) == {l \in Range(wire_labels(w)) : l.pp_bit = 0}

(* C20: for a gate garbled with GRR3 and the labels L0, R0 with pp_bit     *)
(* false on its left and right wires, the label grr3_ungarble(L0, R0)      *)
(* derives from the all-zero block has the bytes and the pp_bit of the     *)
(* output-wire label that represents gate(L0.represents, R0.represents).   *)
C20_ZeroCiphertextLaw ==
    settings.GRR3 =>
        \A k \in 1..Len(garbled) :
           LET gate == gates[garbled[k]]
               left == PPFalse(wires[gate.left_wire])
               right == PPFalse(wires[gate.right_wire])
           IN  /\ left # {}
               /\ right # {}
               /\ \A L0 \in left, R0 \in right :
                     LET output_label == grr3_ungarble(gate, settings, L0, R0)
                         logic_value == evaluate_gate(gate.gate_type,
                                                      L0.represents,
                                                      R0.represents)
                         expected == get_label(wires[gate.output_wire],
                                               logic_value)
                     IN  /\ output_label # Raised
                         /\ output_label.label = expected.label
                         /\ output_label.pp_bit = expected.pp_bit

(* Under GRR3 a whole tree of at least three gates is garbled, and the     *)
(* zero ciphertext of its root gate is the root's true output label.       *)
C20_Witness ==
    /\ settings.GRR3
    /\ Len(garbled) >= 3
    /\ Len(garbled) = Len(tree)
    /\ \E L0 \in PPFalse(wires[gates[1].left_wire]),
          R0 \in PPFalse(wires[gates[1].right_wire]) :
          /\ evaluate_gate(gates[1].gate_type, L0.represents,
                           R0.represents) = 1
          /\ grr3_ungarble(gates[1], settings, L0, R0).label
                = wires[gates[1].output_wire].true_label.label

(* The position of a leaf node among the leaf nodes of an order of the     *)
(* tree's nodes.                                                           *)
LeafRank(T, order, node) ==
    LET at == CHOOSE i \in 1..Len(order) : order[i] = node
    IN  Cardinality({i \in 1..at : is_leaf(T, order[i])})

(* C21: in reconstruct every leaf gate pops the two labels that the        *)
(* garbler's input-wire listing (post-order of the leaves) holds for that  *)
(* leaf: the leaf's turn among the leaves in reconstruct is its turn among *)
(* the leaves in post-order.                                               *)
C21_LeafPopsOwnLabels ==
    (e_circ # NoCirc /\ pcE # "reconstruct") =>
        \A node \in 1..Len(e_circ.tree) :
           is_leaf(e_circ.tree, node) =>
              LeafRank(e_circ.tree, ReconstructOrder(e_circ.tree), node)
                = LeafRank(e_circ.tree, PostOrder(e_circ.tree, 1), node)

(* The gates of the sub-trees of a node. *)
RECURSIVE IsUnder(_, _, _)
IsUnder(T, a, node) ==
    /\ T[a].parent # 0
    /\ (T[a].parent = node \/ IsUnder(T, T[a].parent, node))

Under(T, node) == {a \in 1..Len(T) : IsUnder(T, a, node)}

(* The gates garble() has been invoked on: those it completed on, and the  *)
(* one it raised on.                                                       *)
GarbleInvoked ==
    Range(garbled) \cup
       (IF pcG = "raised" /\ stack # <<>>
        THEN {f.node : f \in {g \in Range(stack) : g.pc = "garble"}}
        ELSE {})

(* C22: during construction garble() is invoked once on every gate, and on *)
(* a gate only when every gate of its two sub-expressions has been built   *)
(* and garbled; when construction is over it has been invoked on a gate    *)
(* for each operator of the expression.                                    *)
C22_GarbleInPostOrder ==
    [][/\ garbled' # garbled =>
             LET f == stack[Len(stack)]
             IN  /\ garbled' = Append(garbled, f.node)
                 /\ f.node \notin Range(garbled)
                 /\ Under(tree, f.node) \subseteq Range(garbled)
                 /\ Cardinality(Under(tree, f.node))
                       = NumOps(f.left) + NumOps(f.right)
       /\ pcG' \notin {"Circuit", "build_tree"} =>
             /\ GarbleInvoked' = 1..NumOps(file)
             /\ \A node \in GarbleInvoked' :
                   Under(tree', node) \subseteq Range(garbled')]_vars

(* The five gates of a tree of three levels have all been garbled. *)
C22_Witness ==
    /\ pcG = "hand_over_wire_identifiers"
    /\ Len(garbled) = 5
    /\ \E node \in 1..Len(tree) : Cardinality(Under(tree, node)) = 2

(* The bytes and the select bit of the two labels of a wire. *)
BytesAndBits(W, w) ==
    <<W[w].false_label.label, W[w].false_label.pp_bit,
      W[w].true_label.label, W[w].true_label.pp_bit>>

(* C23: garbling a gate leaves the label bytes and the pp_bits of the      *)
(* output wire of every gate garbled before it as they were.               *)
C23_GarbledOutputWireIsFrozen ==
    [][garbled' # garbled =>
          \A k \in 1..Len(garbled) :
             BytesAndBits(wires', gates'[garbled[k]].output_wire)
               = BytesAndBits(wires, gates[garbled[k]].output_wire)]_vars

(* The slots of the table of a gate that hold an entry. *)
Filled(table) == {j \in 1..Len(table) : table[j] # NoEntry}

(* C24: after flexor_garble on an XOR gate the table holds the entry of    *)
(* the left wire, at left.true_label.pp_bit, exactly when R1 # R3, and the *)
(* entry of the right wire, at right.true_label.pp_bit + 2, exactly when   *)
(* R2 # R3, and nothing else.                                              *)
C24_FlexorTableEntries ==
    pcG \in {"flexor: garbled", "raised"} =>
       LET R1 == xor(wires[1].false_label.label, wires[1].true_label.label)
           R2 == xor(wires[2].false_label.label, wires[2].true_label.label)
           R3 == xor(wires[3].false_label.label, wires[3].true_label.label)
       IN  Filled(gates[1].table)
             = (IF R1 # R3 THEN {wires[1].true_label.pp_bit + 1} ELSE {})
               \cup
               (IF R2 # R3 THEN {wires[2].true_label.pp_bit + 3} ELSE {})

(* The inputs of a gate as half gates needs them: on both input wires the  *)
(* true label is the false label xor R and the two pp_bits differ.         *)
OffsetInputs(W, g, R) ==
    \A w \in {g.left_wire, g.right_wire} :
       /\ W[w].true_label.label = xor(W[w].false_label.label, R)
       /\ W[w].true_label.pp_bit = 1 - W[w].false_label.pp_bit

(* C25: for an AND gate garbled with half gates on such inputs, and for    *)
(* every a and b, half_gates_ungarble of the left label for a and the      *)
(* right label for b returns the bytes output_wire.false_label.label xor   *)
(* (a AND b) * R, which are the bytes of the output label for a AND b,     *)
(* with that label's pp_bit and with represents unset.                     *)
C25_HalfGatesAndIsCorrect ==
    settings.HALF_GATES =>
       \A k \in 1..Len(garbled) :
          LET g == gates[garbled[k]]
              out == wires[g.output_wire]
          IN  (g.gate_type = "AND" /\ OffsetInputs(wires, g, settings.R)) =>
                 \A a \in {0, 1}, b \in {0, 1} :
                    LET got == half_gates_ungarble(
                                   g, settings,
                                   get_label(wires[g.left_wire], a),
                                   get_label(wires[g.right_wire], b))
                        expected == get_label(out, evaluate_gate("AND", a, b))
                    IN  /\ got.label
                             = xor(out.false_label.label,
                                   IF a = 1 /\ b = 1 THEN settings.R ELSE Zero)
                        /\ got.label = expected.label
                        /\ got.pp_bit = expected.pp_bit
                        /\ got.represents = None

(* An AND gate fed by two other gates has been garbled with half gates,    *)
(* with its left false label selected by 1.                                *)
C25_Witness ==
    /\ settings.HALF_GATES
    /\ \E k \in 1..Len(garbled) :
          LET g == gates[garbled[k]]
          IN  /\ g.gate_type = "AND"
              /\ OffsetInputs(wires, g, settings.R)
              /\ wires[g.left_wire].false_label.pp_bit = 1
              /\ wires[g.right_wire].false_label.pp_bit = 0
              /\ \E j \in 1..Len(garbled) :
                    gates[garbled[j]].output_wire = g.left_wire

(* The slots of a classical table that authenticate under two labels. *)
Authenticates(g, garblers_label, evaluators_label) ==
    {i \in 1..Len(g.table) :
        Decrypt2("fernet", garblers_label, evaluators_label, g.table[i])
          # Raised}

(* C26: for a gate garbled classically and a label of each input wire,     *)
(* one slot of the shuffled table authenticates under the two labels,      *)
(* wherever the shuffle put it, and classical_ungarble returns the output  *)
(* label pickled in that slot, the label of the output wire for the value  *)
(* of the gate: the slots that fail are passed over and none of them       *)
(* replaces the result.                                                    *)
C26_ClassicalUngarbleFindsEntry ==
    settings.CLASSICAL =>
       \A k \in 1..Len(garbled) :
          LET g == gates[garbled[k]]
          IN  \A a \in {0, 1}, b \in {0, 1} :
                 LET L == get_label(wires[g.left_wire], a)
                     R == get_label(wires[g.right_wire], b)
                     ok == Authenticates(g, L, R)
                     got == classical_ungarble(g, settings, L, R)
                 IN  /\ Cardinality(ok) = 1
                     /\ \A i \in ok : got = g.table[i].p
                     /\ got = get_label(wires[g.output_wire],
                                        evaluate_gate(g.gate_type, a, b))

(* A classical table whose entry for the two true labels was shuffled to   *)
(* the first slot, so that three failures follow the success.              *)
C26_Witness ==
    /\ settings.CLASSICAL
    /\ \E k \in 1..Len(garbled) :
          LET g == gates[garbled[k]]
          IN  /\ Len(g.table) = 4
              /\ Authenticates(g, wires[g.left_wire].true_label,
                               wires[g.right_wire].true_label) = {1}
              /\ Authenticates(g, wires[g.left_wire].false_label,
                               wires[g.right_wire].false_label) # {4}

(* C27: the circuit clean() returns has the three wires of every gate set  *)
(* to None and the gates' tables as they are, and the call leaves the      *)
(* garbler's circuit as it was: its gates keep their wires, and the root's *)
(* output wire keeps its two labels.                                       *)
C27_CleanCopiesAndKeepsOriginal ==
    [][(pcG = "hand_over_labels" /\ pcG' = "learn_output") =>
          LET new_circ == g2e'[Len(g2e')].circ
              root == gates'[1].output_wire
          IN  /\ g2e'[Len(g2e')].kind = "circuit"
              /\ Len(new_circ.gates) = Len(gates)
              /\ \A i \in 1..Len(gates) :
                    /\ new_circ.gates[i].left_wire = NoWire
                    /\ new_circ.gates[i].right_wire = NoWire
                    /\ new_circ.gates[i].output_wire = NoWire
                    /\ new_circ.gates[i].table = gates[i].table
                    /\ new_circ.gates[i].gate_type = gates[i].gate_type
              /\ new_circ.tree = tree
              /\ <<tree', gates', wires', input_wires'>>
                    = <<tree, gates, wires, input_wires>>
              /\ root # NoWire
              /\ wires'[root].false_label.label
                    # wires'[root].true_label.label
              /\ wires'[root].true_label.represents = 1]_vars

(* The cleaned copy of a circuit of five gates is in flight and the        *)
(* garbler goes on to learn_output with its own circuit.                   *)
C27_Witness ==
    /\ pcG = "learn_output"
    /\ Len(gates) = 5
    /\ \E i \in 1..Len(g2e) :
          /\ g2e[i].kind = "circuit"
          /\ \A j \in 1..5 : g2e[i].circ.gates[j].output_wire = NoWire
    /\ \A j \in 1..5 : gates[j].output_wire # NoWire

(* The wires that are the output wire of some gate. *)
OutputWires(G) == {G[i].output_wire : i \in 1..Len(G)}

(* The gate built for an expression, and the gates under it, are wired as  *)
(* the expression says.  Nodes are numbered as _build_tree makes them: the *)
(* node of an expression, then those of its left side, then those of its   *)
(* right side.                                                             *)
RECURSIVE WiredAs(_, _, _, _, _)
WiredAs(T, G, W, expression, node) ==
    LET sep == _separate(expression)
        gate == G[node]
        left_child == node + 1
        right_child == node + 1 + NumOps(sep.left)
    IN  /\ gate.left_wire # NoWire
        /\ gate.right_wire # NoWire
        /\ IF IsLeafExpr(sep.left)
           THEN /\ gate.left_wire \notin OutputWires(G)
                /\ W[gate.left_wire].identifier = LeafId(sep.left)
           ELSE /\ left_child \in Range(T[node].children)
                /\ gate.left_wire = G[left_child].output_wire
                /\ WiredAs(T, G, W, sep.left, left_child)
        /\ IF IsLeafExpr(sep.right)
           THEN /\ gate.right_wire \notin OutputWires(G)
                /\ W[gate.right_wire].identifier = LeafId(sep.right)
           ELSE /\ right_child \in Range(T[node].children)
                /\ gate.right_wire = G[right_child].output_wire
                /\ WiredAs(T, G, W, sep.right, right_child)

(* C28: once build_tree has built a gate for every operator of the         *)
(* expression, every gate has both input wires; on a leaf side the wire is *)
(* a fresh one that carries the identifier, on a sub-expression side it is *)
(* the output wire of the child built for that side.                       *)
C28_GatesAreWired ==
    (pcG \notin {"Circuit", "build_tree"} /\ Len(tree) = NumOps(file)) =>
        WiredAs(tree, gates, wires, file, 1)

(* The label bytes of the input wire the i-th identifier names. *)
BytesOfInput(i) ==
    {wires[input_wires[i]].false_label.label,
     wires[input_wires[i]].true_label.label}

(* C29: once both parties have passed their identifier checks, what each   *)
(* receives for an input wire is what its own sub-protocol for that wire   *)
(* expects (the evaluator a label when it does not supply the wire and the *)
(* first OT message when it does, the garbler an 'ACK' after a label and   *)
(* the OT reply inside garbler_ot), and the i-th label the evaluator has   *)
(* accumulated is a label of the wire the i-th identifier names.           *)
C29_SameSubProtocolPerWire ==
    [][/\ (pcE = "request_labels" /\ ei <= Len(idents)
             /\ (ei' # ei \/ pcE' # pcE)) =>
            Head(g2e).kind = IF idents[ei] \in e_args THEN "ot_x" ELSE "label"
       /\ (pcG = "wait_for_ack_label" /\ e2g' # e2g /\ Len(log') > Len(log)
             /\ log'[Len(log) + 1].by = "G") =>
            Head(e2g).kind = "ACK"
       /\ (pcG = "garbler_ot" /\ pcG' # pcG) => Head(e2g).kind = "ot_v"
       /\ \A i \in 1..Len(labels') : labels'[i].label \in BytesOfInput(i)]_vars

(* A party is blocked in a receive with nothing in flight towards it. *)
EvaluatorWaits ==
    /\ pcE \in {"request_wire_identifiers", "request_labels", "evaluator_ot",
                "learn_output"}
    /\ g2e = <<>>

GarblerWaits ==
    /\ pcG \in {"wait_for_ack_identifiers", "wait_for_ack_label",
                "wait_for_ack_ot", "garbler_ot", "learn_output"}
    /\ e2g = <<>>

(* C30: with disjoint identifier sets that cover the input wires, neither  *)
(* party ends by an exception instead of returning, the two parties are    *)
(* never both blocked in a receive, and neither is blocked in a receive    *)
(* when the other has ended and will send nothing more.                    *)
C30_NeitherPartyIsStuck ==
    /\ pcG # "raised"
    /\ pcE # "raised"
    /\ ~(GarblerWaits /\ EvaluatorWaits)
    /\ ~(EvaluatorWaits /\ pcG = "done")
    /\ ~(GarblerWaits /\ pcE = "done")

=============================================================================
